---- MODULE Spec2Model ----
(***************************************************************************)
(* Chain watcher, mint classifier gate and replay orchestrator of the      *)
(* minter bot (src/src/monitor.ts and the multi-key mint module).          *)
(*                                                                         *)
(* One step of the model is one run-to-completion segment of the Node.js   *)
(* event loop: a handler runs from the event that wakes it (a WebSocket    *)
(* block event, a timer, an RPC response) up to the next await that needs  *)
(* a new event.  Awaits on already settled promises are continued in the   *)
(* same step, since no I/O event can run between microtasks.               *)
(***************************************************************************)
EXTENDS Integers, Sequences, FiniteSets, TLC

(***************************************************************************)
(* Program constants                                                       *)
(***************************************************************************)
MAX_PROCESSED_TXS == 5000

CLEANUP_SLACK == 500

BATCH_SIZE == 5

maxRetries == 3

POLL_LOOKBACK == 2

MAX_KEYS == 3

SHORT_CALLDATA == 200

LONG_CALLDATA == 600

(***************************************************************************)
(* Bounds of the model                                                     *)
(***************************************************************************)
\* handler invocations (WebSocket block handlers, poll ticks) alive at once
MaxHandlers == 2

\* non-privileged subscribers beyond one full batch in the batch scenario
ExtraTasks == 1

\* push subscription failures in the socket scenario
MaxFaults == 2

(***************************************************************************)
(* Strings: String.prototype.toLowerCase on the strings the model uses     *)
(***************************************************************************)
LowerTable ==
    ("0xAAaa" :> "0xaaaa") @@ ("0xCCcc" :> "0xcccc") @@
    ("0xA9059CBB" :> "0xa9059cbb") @@ ("0x40C10F19" :> "0x40c10f19")

toLowerCase(s) == IF s \in DOMAIN LowerTable THEN LowerTable[s] ELSE s

\* Number.prototype.toString on the chat ids the model uses
NumberTable ==
    (7 :> "7") @@ (8 :> "8") @@ (9 :> "9") @@ ((-100) :> "-100") @@
    (11 :> "11") @@ (12 :> "12") @@ (13 :> "13") @@ (14 :> "14") @@
    (15 :> "15") @@ (16 :> "16") @@ (17 :> "17") @@ (18 :> "18") @@ (19 :> "19")

toString(n) == IF n \in DOMAIN NumberTable THEN NumberTable[n] ELSE "?"

\* ethers.formatEther on the values (in gwei) the model uses
formatEther(v) == IF v = 0 THEN "0.0" ELSE "0.01"

Range(s) == {s[i] : i \in DOMAIN s}

Min(a, b) == IF a < b THEN a ELSE b

Max(a, b) == IF a > b THEN a ELSE b

(***************************************************************************)
(* Mint classifier (filters.ts).  Calldata is kept as its first ten        *)
(* characters (sel) and its length in characters (len).                    *)
(***************************************************************************)
TOKEN_FUNCTION_BLACKLIST ==
    {"0xa9059cbb", "0x095ea7b3", "0x23b872dd", "0x38ed1739", "0xfb3bdb41",
     "0x7ff36ab5", "0x18cbafe5", "0x5c11d795", "0xb6f9de95", "0xac9650d8",
     "0x414bf389", "0xad9d4f64", "0x12a7b935", "0xa22cb465", "0x42842712",
     "0xb88d4fde", "0x2e1a7d4d", "0xd0e30db0"}

MINT_FUNCTION_WHITELIST ==
    {"0x1249c58b", "0x6a627842", "0xa0712d68", "0x2db11544", "0x4e71d92d",
     "0x84bb1e42", "0x40c10f19", "0x161ac21f", "0x94b91883"}

\* !txData || txData === '0x'
NoCalldata(d) == d.len = 0 \/ (d.len = 2 /\ d.sel = "0x")

\* faulty variant: the deny-list layer is missing
isLikelyNFTMintNoDenyList(txData) ==
    IF NoCalldata(txData) THEN FALSE
    ELSE LET functionSig == toLowerCase(txData.sel) IN
         IF functionSig \in MINT_FUNCTION_WHITELIST THEN TRUE
         ELSE IF txData.len < SHORT_CALLDATA THEN TRUE
         ELSE IF txData.len > LONG_CALLDATA THEN FALSE
         ELSE TRUE

\* faulty variant: the allow list is looked at before the deny list
classifyAllowFirst(deny, allow, txData) ==
    IF NoCalldata(txData) THEN FALSE
    ELSE LET functionSig == toLowerCase(txData.sel) IN
         IF functionSig \in allow THEN TRUE
         ELSE IF functionSig \in deny THEN FALSE
         ELSE IF txData.len < SHORT_CALLDATA THEN TRUE
         ELSE IF txData.len > LONG_CALLDATA THEN FALSE
         ELSE TRUE

\* faulty variant: the long-calldata threshold itself is rejected
classifyLongInclusive(deny, allow, txData) ==
    IF NoCalldata(txData) THEN FALSE
    ELSE LET functionSig == toLowerCase(txData.sel) IN
         IF functionSig \in deny THEN FALSE
         ELSE IF functionSig \in allow THEN TRUE
         ELSE IF txData.len < SHORT_CALLDATA THEN TRUE
         ELSE IF txData.len >= LONG_CALLDATA THEN FALSE
         ELSE TRUE

\* the layers of isLikelyNFTMint, over the two lists it reads
classify(deny, allow, txData) ==
    IF NoCalldata(txData) THEN FALSE
    ELSE LET functionSig == toLowerCase(txData.sel) IN
         IF functionSig \in deny THEN FALSE
         ELSE IF functionSig \in allow THEN TRUE
         ELSE IF txData.len < SHORT_CALLDATA THEN TRUE
         ELSE IF txData.len > LONG_CALLDATA THEN FALSE
         ELSE TRUE

isLikelyNFTMint(txData) ==
    classify(TOKEN_FUNCTION_BLACKLIST, MINT_FUNCTION_WHITELIST, txData)

\* getFilterReason: the description of the layer that decides
getFilterReason(txData) ==
    IF NoCalldata(txData) THEN "No calldata"
    ELSE LET functionSig == toLowerCase(txData.sel) IN
         IF functionSig \in TOKEN_FUNCTION_BLACKLIST
         THEN "Token operation (transfer/approve/swap)"
         ELSE IF functionSig \in MINT_FUNCTION_WHITELIST THEN "Known NFT mint function"
         ELSE IF txData.len > LONG_CALLDATA THEN "Complex interaction (likely swap/DeFi)"
         ELSE "Potential NFT mint"

(***************************************************************************)
(* State                                                                   *)
(***************************************************************************)
VARIABLES
    users,             \* store.data.users, in Object.entries order
    ADMIN_ID,          \* process.env.ADMIN_USER_ID, trimmed
    chains,            \* the ChainConfig of each chain: rpcUrls (count), wsUrl
    ledger,            \* environment: the blocks of each chain, by number
    rpcFaulty,         \* environment: whether an RPC endpoint can throw
    botFaulty,         \* environment: whether bot.api.sendMessage can reject
    mined,             \* environment: whether waitForTransaction ever settles
    job,               \* the calldata a rewriting run works on, and its results
    registry,          \* the Store and the wallet map cache a run of registry calls works on
    head,              \* environment: the current height of each chain
    timers,            \* chains whose setInterval poll timer is installed
    wsOpen,            \* chains whose WebSocket 'block' handler is attached
    wsDown,            \* per chain, the push failure since the last connect()
    wsFaults,          \* environment: push failures that can still happen
    lastCheckedBlock,  \* cursor per chain, 0 when unset
    processedTxs,      \* the Set of hashes, in insertion order
    procs,             \* the handler invocations that are alive
    seen,              \* history: processedTxs.has lookups per hash
    classified,        \* history: isLikelyNFTMint evaluations per hash
    calls,             \* history: attemptMintAllKeys invocations per hash, user
    outs,              \* history: attempts returned per hash, user
    notes,             \* history: messages sent through bot.api per hash
    done,              \* history: times the orchestration of a hash finished
    sent,              \* history: the sendMessage calls per hash, user, in order
    waits,             \* history: the waitForConfirmation calls per hash, user, key
    handed,            \* history: block numbers passed to processBlock, per chain
    owner              \* history: the chain whose watcher recorded a hash

vars == <<users, ADMIN_ID, chains, ledger, rpcFaulty, botFaulty, mined, job, registry, head, timers,
          wsOpen, wsDown, wsFaults, lastCheckedBlock, processedTxs, procs, seen,
          classified, calls, outs, notes, sent, waits, done, handed, owner>>

config == <<users, ADMIN_ID, chains, ledger, rpcFaulty, botFaulty, mined, job, registry>>

monitor == <<users, ADMIN_ID, chains, ledger, rpcFaulty, botFaulty, mined, head, timers,
             wsOpen, wsDown, wsFaults, lastCheckedBlock, processedTxs, procs, seen,
             classified, calls, outs, notes, sent, waits, done, handed, owner>>

watcher == <<monitor, registry>>

history == <<seen, classified, calls, outs, notes, sent, waits, done, handed, owner>>

sockets == <<timers, wsOpen, wsDown, wsFaults>>

ChainNames == {"ETH", "BASE", "POLY"}

Hashes == {"h1", "h2", "h3", "h4", "h5", "h6", "h7"}

ProcIds == 1..MaxHandlers

(***************************************************************************)
(* Scenarios: the store, the environment variable and the chain contents   *)
(* the checks run over.                                                    *)
(***************************************************************************)
TRACKED == "0xAAaa"

CONTRACT == "0xC0FFEE"

Key(addr) == [name |-> addr, address |-> addr, pk |-> "valid", enc |-> "ok"]

\* a key whose stored ciphertext no longer decrypts
CorruptKey(addr) == [name |-> addr, address |-> addr, pk |-> "valid", enc |-> "corrupt"]

\* a key whose plaintext is no private key: deriveAddress stored '0x???'
InvalidKey == [name |-> "bad", address |-> "0x???", pk |-> "invalid", enc |-> "ok"]

User(id, chat, wallets, keys) ==
    [userId |-> id, chatId |-> chat, trackedWallets |-> wallets, walletKeys |-> keys]

Tx(h, from, to, sel, len, value) ==
    [hash |-> h, from |-> from, to |-> to,
     data |-> [sel |-> sel, len |-> len], value |-> value]

\* mint(address,uint256) from the tracked sender, free
Mint(h) == Tx(h, TRACKED, CONTRACT, "0x40c10f19", 138, 0)

\* 0.01 ETH; values are kept in gwei
PaidMint(h) == Tx(h, TRACKED, CONTRACT, "0x40c10f19", 138, 10000000)

Transfer(h) == Tx(h, TRACKED, CONTRACT, "0xA9059CBB", 138, 0)

NoChain == [rpcUrls |-> 0, wsUrl |-> FALSE]

OneChain(blocks, handlers) ==
    [handlers |-> handlers, processedTxs |-> <<>>, wsFaults |-> 0, rpcFaulty |-> TRUE,
     botFaulty |-> FALSE, mined |-> FALSE,
     chains |-> [c \in ChainNames |->
                    IF c = "ETH" THEN [rpcUrls |-> 2, wsUrl |-> TRUE] ELSE NoChain],
     ledger |-> [c \in ChainNames |-> IF c = "ETH" THEN blocks ELSE <<>>]]

\* handlers: how many handler invocations may be alive at once
Scenario(us, admin, blocks, handlers) ==
    [users |-> us, ADMIN_ID |-> admin] @@ OneChain(blocks, handlers)

\* the same transaction is seen again in the next block (re-inclusion after a
\* reorganisation), next to a token transfer
ScnDedup ==
    Scenario(<<User("8", 8, <<"0xaaaa">>, <<Key("0xB1")>>)>>, "",
             << <<Mint("h1")>>, <<Mint("h1"), Transfer("h2")>> >>, MaxHandlers)

\* one transaction for each way of not qualifying, then one that qualifies
ScnFilter ==
    Scenario(<<User("8", 8, <<TRACKED>>, <<Key("0xB1")>>)>>, "",
             << <<Tx("h1", "0xCCcc", CONTRACT, "0x40c10f19", 138, 0),
                  Tx("h2", TRACKED, CONTRACT, "", 0, 0),
                  Tx("h3", TRACKED, CONTRACT, "0x", 2, 0),
                  Tx("h4", TRACKED, "", "0x40c10f19", 138, 0),
                  Transfer("h5"),
                  Tx("h6", TRACKED, CONTRACT, "0xdeadbeef", 601, 0)>>,
                <<Tx("h7", "0xaaaa", CONTRACT, "0xdeadbeef", 600, 0)>> >>, 2)

\* a paid mint seen by a privileged subscriber and two others
ScnPaid ==
    Scenario(<<User("8", 8, <<TRACKED>>, <<Key("0xB1"), CorruptKey("0xB2"), Key("0xB3")>>),
               User("7", 7, <<TRACKED>>, <<Key("0xB4"), Key("0xB5")>>),
               User("9", 9, <<TRACKED>>, <<CorruptKey("0xB6")>>)>>, "7",
             << <<PaidMint("h1")>>, <<PaidMint("h1"), PaidMint("h2")>> >>, 2)

\* ADMIN_ID matches one subscriber, who is not first in the tracker list; keys
\* that replay nothing: the sender's own key, a key that is no private key
ScnAdminOne ==
    Scenario(<<User("8", 8, <<TRACKED>>, <<Key("0xB1")>>),
               User("7", 7, <<TRACKED>>, <<Key(TRACKED), Key("0xB2")>>),
               User("9", 9, <<TRACKED>>, <<InvalidKey, Key("0xB3")>>)>>, "7",
             << <<Tx("h1", "0xaaaa", CONTRACT, "0x40c10f19", 138, 0)>> >>, 1)

\* ADMIN_ID is the id of a group chat two subscribers registered from
ScnAdminSeveral ==
    Scenario(<<User("7", -100, <<TRACKED>>, <<Key("0xB1")>>),
               User("8", -100, <<TRACKED>>, <<Key("0xB2")>>),
               User("9", 9, <<TRACKED>>, <<Key("0xB3")>>)>>, "-100",
             << <<Mint("h1")>> >>, 1)

\* nobody tracks anything: the interest index is empty
ScnNoWallets ==
    Scenario(<<User("8", 8, <<>>, <<Key("0xB1")>>)>>, "", << <<Mint("h1")>> >>, 1)

\* more non-privileged subscribers than one batch holds
ScnBatch ==
    Scenario([i \in 1..(BATCH_SIZE + ExtraTasks) |->
                 User(toString(10 + i), 10 + i, <<TRACKED>>, <<Key("0xB1")>>)], "",
             << <<Mint("h1")>> >>, 1)

\* a chain of empty blocks that the push and the poll path both walk, behind
\* endpoints that answer every call
ScnCursor ==
    [Scenario(<<User("8", 8, <<TRACKED>>, <<Key("0xB1")>>)>>, "",
              << <<>>, <<>>, <<>>, <<>>, <<>> >>, 2)
        EXCEPT !.rpcFaulty = FALSE]

\* a shorter chain of empty blocks behind endpoints that throw
ScnRetry ==
    Scenario(<<User("8", 8, <<TRACKED>>, <<Key("0xB1")>>)>>, "",
             << <<>>, <<>>, <<>> >>, 2)

\* the same signed transaction is included on two chains; BASE is watched by
\* polling only, POLY has a WebSocket URL but no RPC endpoint
ScnTwoChains ==
    [Scenario(<<User("8", 8, <<TRACKED>>, <<Key("0xB1")>>)>>, "", << <<Mint("h1")>> >>, 1)
        EXCEPT !.chains["BASE"] = [rpcUrls |-> 1, wsUrl |-> FALSE],
               !.chains["POLY"] = [rpcUrls |-> 0, wsUrl |-> TRUE],
               !.ledger["BASE"] = << <<Mint("h1")>> >>]

\* a push subscription that fails
ScnSocket ==
    [Scenario(<<User("8", 8, <<TRACKED>>, <<Key("0xB1")>>)>>, "", << <<>> >>, 1)
        EXCEPT !.wsFaults = MaxFaults]

\* the hashes of n candidates evaluated earlier, oldest first
Evaluated(n) == [i \in 1..n |-> "old" \o ToString(i)]

\* a watcher that has run for long: the processed set is one short of the
\* pruning threshold when three more candidates arrive in two blocks
ScnPrune ==
    [Scenario(<<User("8", 8, <<TRACKED>>, <<Key("0xB1")>>)>>, "",
              << <<Tx("h1", TRACKED, CONTRACT, "", 0, 0)>>,
                 <<Tx("h2", TRACKED, CONTRACT, "", 0, 0),
                   Tx("h3", TRACKED, CONTRACT, "0x", 2, 0)>> >>, 1)
        EXCEPT !.processedTxs = Evaluated(MAX_PROCESSED_TXS + CLEANUP_SLACK - 1)]

\* a paid and a free mint in one block, for one subscriber with two keys; the
\* messenger can reject a send, and the receipts of the broadcasts arrive
ScnNotify ==
    [Scenario(<<User("8", 8, <<TRACKED>>, <<Key("0xB1"), Key("0xB2")>>)>>, "",
              << <<PaidMint("h1"), Mint("h2")>> >>, 1)
        EXCEPT !.rpcFaulty = FALSE, !.botFaulty = TRUE, !.mined = TRUE]

\* two free mints in one block, for the privileged subscriber and one other,
\* and a SeaDrop mintSigned call after them
ScnTwoMints ==
    [Scenario(<<User("8", 8, <<TRACKED>>, <<Key("0xB1")>>),
                User("7", 7, <<TRACKED>>, <<Key("0xB2")>>)>>, "7",
              << <<Mint("h1"), Mint("h2"),
                   Tx("h3", TRACKED, CONTRACT, "0x4b61cd6f", 1098, 0)>> >>, 1)
        EXCEPT !.rpcFaulty = FALSE]

Scenarios ==
    {ScnDedup, ScnFilter, ScnPaid, ScnAdminOne, ScnAdminSeveral, ScnNoWallets, ScnBatch,
     ScnCursor, ScnRetry, ScnTwoChains, ScnSocket, ScnPrune, ScnNotify,
     ScnTwoMints}

(***************************************************************************)
(* Address interest index and store reads                                  *)
(***************************************************************************)
\* getWalletMap().get(addr): the subscribers (indices into users) that track
\* addr, one entry per tracked wallet, in store order; <<>> for undefined
getWalletMap(addr) ==
    LET Hits(u) == SelectSeq(users[u].trackedWallets, LAMBDA w : toLowerCase(w) = addr)
        F[u \in 0..Len(users)] ==
            IF u = 0 THEN <<>> ELSE F[u - 1] \o [j \in 1..Len(Hits(u)) |-> u]
    IN F[Len(users)]

\* walletMap.size === 0
walletMapEmpty == \A u \in 1..Len(users) : users[u].trackedWallets = <<>>

\* store.getAllDecryptedKeys: the keys whose ciphertext decrypts
getAllDecryptedKeys(u) == SelectSeq(users[u].walletKeys, LAMBDA k : k.enc = "ok")

\* t.chatId.toString().trim() === ADMIN_ID || t.userId.toString().trim() === ADMIN_ID
matchesAdmin(u) == toString(users[u].chatId) = ADMIN_ID \/ users[u].userId = ADMIN_ID

adminTracker(trackers) ==
    LET m == SelectSeq(trackers, matchesAdmin)
    IN IF ADMIN_ID # "" /\ m # <<>> THEN <<m[1]>> ELSE <<>>

otherTrackers(trackers) ==
    IF ADMIN_ID # "" THEN SelectSeq(trackers, LAMBDA t : ~matchesAdmin(t)) ELSE trackers

(***************************************************************************)
(* processedTxs                                                            *)
(***************************************************************************)
\* faulty variant: the lookup never finds a hash
hasNothing(set, h) == FALSE

has(set, h) == h \in Range(set)

\* faulty variant: the hash is not recorded
addForgotten(set, h) == set

add(set, h) == IF h \in Range(set) THEN set ELSE Append(set, h)

\* faulty variant: pruning starts at MAX_PROCESSED_TXS already
cleanupNoSlack(set) ==
    IF Len(set) > MAX_PROCESSED_TXS
    THEN SubSeq(set, Len(set) - MAX_PROCESSED_TXS + 1, Len(set))
    ELSE set

cleanupProcessedTxs(set) ==
    IF Len(set) > MAX_PROCESSED_TXS + CLEANUP_SLACK
    THEN SubSeq(set, Len(set) - MAX_PROCESSED_TXS + 1, Len(set))
    ELSE set

(***************************************************************************)
(* Calldata rewriting (calldata_utils.ts).  Here calldata is its first ten *)
(* characters (sel) and the characters after them (params), a sequence of  *)
(* one-character strings; an address is the 40 characters after its '0x'.  *)
(***************************************************************************)
Rep(n, ch) == [i \in 1..n |-> ch]

HexChars ==
    {"0", "1", "2", "3", "4", "5", "6", "7", "8", "9",
     "a", "b", "c", "d", "e", "f", "A", "B", "C", "D", "E", "F"}

LowerChar(ch) ==
    CASE ch = "A" -> "a" [] ch = "B" -> "b" [] ch = "C" -> "c"
      [] ch = "D" -> "d" [] ch = "E" -> "e" [] ch = "F" -> "f" [] OTHER -> ch

UpperChar(ch) ==
    CASE ch = "a" -> "A" [] ch = "b" -> "B" [] ch = "c" -> "C"
      [] ch = "d" -> "D" [] ch = "e" -> "E" [] ch = "f" -> "F" [] OTHER -> ch

\* String.prototype.toLowerCase, character by character
lowerChars(t) == [i \in 1..Len(t) |-> LowerChar(t[i])]

\* String.prototype.substring(a, b) and substring(a), for a <= b
substring(t, a, b) == SubSeq(t, Min(a, Len(t)) + 1, Min(b, Len(t)))

substringFrom(t, a) == SubSeq(t, Min(a, Len(t)) + 1, Len(t))

padStart(t, n, ch) == IF Len(t) >= n THEN t ELSE Rep(n - Len(t), ch) \o t

\* String.prototype.indexOf: the first position (from 0) of needle, or -1
indexOf(hay, needle) ==
    LET hits == {i \in 0..(Len(hay) - Len(needle)) :
                    SubSeq(hay, i + 1, i + Len(needle)) = needle}
    IN IF hits = {} THEN -1 ELSE CHOOSE i \in hits : \A j \in hits : i <= j

includes(hay, needle) == indexOf(hay, needle) # -1

\* address.toLowerCase().replace('0x', '').padStart(64, '0')
padded(address) == padStart(lowerChars(address), 64, "0")

\* ethers.getAddress: the mixed-case spelling of an address, a fixed function
\* of its digits (here the letters at odd positions are the capitals)
getAddress(hex) ==
    [i \in 1..Len(hex) |->
        IF i % 2 = 1 THEN UpperChar(LowerChar(hex[i])) ELSE LowerChar(hex[i])]

\* AbiCoder.decode(types, '0x' + params): throws on text that is no byte
\* string, on missing words and on an address word with bits above 160;
\* words after the last type are ignored.  A uint256 is kept as its word.
abiDecode(types, params) ==
    LET word(i) == SubSeq(params, 64 * (i - 1) + 1, 64 * i)
        threw == [ok |-> FALSE, values |-> <<>>]
    IN IF \E i \in 1..Len(params) : params[i] \notin HexChars THEN threw
       ELSE IF Len(params) % 2 = 1 \/ Len(params) < 64 * Len(types) THEN threw
       ELSE IF \E i \in 1..Len(types) :
                  types[i] = "address" /\ SubSeq(word(i), 1, 24) # Rep(24, "0")
       THEN threw
       ELSE [ok |-> TRUE,
             values |-> [i \in 1..Len(types) |->
                            IF types[i] = "address"
                            THEN getAddress(SubSeq(word(i), 25, 64))
                            ELSE lowerChars(word(i))]]

\* AbiCoder.encode(types, values).substring(2), for valid addresses
abiEncode(types, values) ==
    LET enc(i) == IF types[i] = "address" THEN padStart(lowerChars(values[i]), 64, "0")
                  ELSE values[i]
        F[i \in 0..Len(types)] == IF i = 0 THEN <<>> ELSE F[i - 1] \o enc(i)
    IN F[Len(types)]

\* faulty variant: the rest is taken from the third word on, not after it
replaceSlot2KeepsMinter(originalData, newRecipient) ==
    LET params == originalData.params IN
    IF Len(params) >= 192
    THEN [sel |-> originalData.sel,
          params |-> substring(params, 0, 128) \o padded(newRecipient)
                        \o substringFrom(params, 128)]
    ELSE originalData

\* the SeaDrop branches: only the third word is written
replaceSlot2(originalData, newRecipient) ==
    LET params == originalData.params IN
    IF Len(params) >= 192
    THEN LET slot0 == substring(params, 0, 64)
             slot1 == substring(params, 64, 128)
             recipientPadded == padded(newRecipient)
             rest == substringFrom(params, 192)
         IN [sel |-> originalData.sel, params |-> slot0 \o slot1 \o recipientPadded \o rest]
    ELSE originalData

\* faulty variant: the decoded recipient is encoded again, not the new one
replaceRecipientForgotten(originalData, newRecipient) ==
    LET decoded == abiDecode(<<"address", "uint256">>, originalData.params) IN
    IF originalData.sel = "0x40c10f19" /\ decoded.ok
    THEN [sel |-> originalData.sel,
          params |-> abiEncode(<<"address", "uint256">>, decoded.values)]
    ELSE originalData

replaceRecipientInCalldata(originalData, newRecipient) ==
    LET functionSig == originalData.sel
        params == originalData.params
    IN IF functionSig = "0x40c10f19"
       THEN LET decoded == abiDecode(<<"address", "uint256">>, params) IN
            IF decoded.ok
            THEN [sel |-> functionSig,
                  params |-> abiEncode(<<"address", "uint256">>,
                                       <<newRecipient, decoded.values[2]>>)]
            ELSE originalData
       ELSE IF functionSig = "0x6a627842"
       THEN [sel |-> functionSig, params |-> abiEncode(<<"address">>, <<newRecipient>>)]
       ELSE IF functionSig = "0x26bf076a"
       THEN LET types == <<"address", "address", "address", "uint256">>
                decoded == abiDecode(types, params)
            IN IF decoded.ok
               THEN [sel |-> functionSig,
                     params |-> abiEncode(types, <<decoded.values[1], decoded.values[2],
                                                   newRecipient, decoded.values[4]>>)]
               ELSE originalData
       ELSE IF functionSig = "0x4b61cd6f" THEN replaceSlot2(originalData, newRecipient)
       ELSE IF functionSig = "0x2e69ed7f" \/ functionSig = "0x6ab93230"
       THEN replaceSlot2(originalData, newRecipient)
       ELSE originalData

addressMintFunctions ==
    {"0x40c10f19", "0x6a627842", "0x4b61cd6f", "0x26bf076a", "0x2e69ed7f", "0x6ab93230"}

needsAddressReplacement(data) == data.sel \in addressMintFunctions

\* one pass from position from on: the text behind a replacement is not
\* searched again
RECURSIVE replaceFrom(_, _, _, _, _)
replaceFrom(params, originalPadded, newPadded, replacements, from) ==
    LET idx == indexOf(substringFrom(lowerChars(params), from), originalPadded) IN
    IF idx = -1 THEN [params |-> params, replacements |-> replacements]
    ELSE replaceFrom(substring(params, 0, from + idx) \o newPadded
                         \o substringFrom(params, from + idx + Len(originalPadded)),
                     originalPadded, newPadded, replacements + 1,
                     from + idx + Len(originalPadded))

\* faulty variant: a single pass, as String.replaceAll makes it
replaceOnePass(params, originalPadded, newPadded, replacements) ==
    replaceFrom(params, originalPadded, newPadded, replacements, 0)

\* faulty variant: an if in place of the while, the leftmost occurrence only
replaceFirst(params, originalPadded, newPadded, replacements) ==
    LET idx == indexOf(lowerChars(params), originalPadded) IN
    IF idx = -1 THEN [params |-> params, replacements |-> replacements]
    ELSE [params |-> substring(params, 0, idx) \o newPadded
                         \o substringFrom(params, idx + Len(originalPadded)),
          replacements |-> replacements + 1]

\* the while loop of genericReplaceAddress
RECURSIVE replaceLoop(_, _, _, _)
replaceLoop(params, originalPadded, newPadded, replacements) ==
    LET idx == indexOf(lowerChars(params), originalPadded) IN
    IF idx = -1 THEN [params |-> params, replacements |-> replacements]
    ELSE replaceLoop(substring(params, 0, idx) \o newPadded
                         \o substringFrom(params, idx + Len(originalPadded)),
                     originalPadded, newPadded, replacements + 1)

\* faulty variant: no safeguard, every occurrence is counted once
genericReplaceUnguarded(calldata, originalAddress, newAddress) ==
    LET originalPadded == padded(originalAddress)
        newPadded == padded(newAddress)
    IN IF originalPadded = newPadded
       THEN [data |-> calldata,
             replacements |-> Cardinality({i \in 0..Len(calldata.params) :
                 substring(lowerChars(calldata.params), i, i + 64) = originalPadded})]
       ELSE LET r == replaceLoop(calldata.params, originalPadded, newPadded, 0)
            IN [data |-> [sel |-> calldata.sel, params |-> r.params],
                replacements |-> r.replacements]

genericReplaceAddress(calldata, originalAddress, newAddress) ==
    LET originalPadded == padded(originalAddress)
        newPadded == padded(newAddress)
    IN IF originalPadded = newPadded THEN [data |-> calldata, replacements |-> 0]
       ELSE LET r == replaceLoop(calldata.params, originalPadded, newPadded, 0)
            IN [data |-> [sel |-> calldata.sel, params |-> r.params],
                replacements |-> r.replacements]

calldataContainsAddress(data, address) ==
    includes(lowerChars(data.params), padded(address))

\* attemptSingleMint, "Construct calldata with address replacement"
constructCalldata(originalTx, signerAddress) ==
    IF needsAddressReplacement(originalTx.data)
    THEN replaceRecipientInCalldata(originalTx.data, signerAddress)
    ELSE IF calldataContainsAddress(originalTx.data, originalTx.from)
    THEN genericReplaceAddress(originalTx.data, originalTx.from, signerAddress).data
    ELSE originalTx.data

(***************************************************************************)
(* The calldata the rewriting runs are given                               *)
(***************************************************************************)
Word(address) == Rep(24, "0") \o address

Uint(digits) == padStart(digits, 64, "0")

\* an address word with a bit set above the 160th
Dirty(address) == <<"f">> \o Rep(23, "0") \o address

SENDER == getAddress(Rep(40, "a"))

SIGNER == getAddress(Rep(40, "b"))

NFT == Rep(40, "c")

FEE == getAddress(Rep(40, "d"))

\* two addresses whose padded forms overlap when shifted
LOW == Rep(39, "0") \o <<"1">>

HIGH == <<"1">> \o Rep(39, "0")

Calldata(sel, params) == [sel |-> sel, params |-> params]

NoData == Calldata("", <<>>)

NoJob ==
    [kind |-> "none", pc |-> "done", data |-> NoData, from |-> <<>>, signer |-> <<>>,
     out |-> NoData, replacements |-> 0, estimated |-> NoData, broadcast |-> NoData]

\* mint(address,uint256): well formed, with capitals, with a word too many,
\* and four payloads that AbiCoder.decode rejects
MintInputs ==
    {Calldata("0x40c10f19", Word(lowerChars(SENDER)) \o Uint(<<"7">>)),
     Calldata("0x40c10f19", Word(SENDER) \o Uint(<<"A", "b">>)),
     Calldata("0x40c10f19", Word(SENDER) \o Uint(<<"7">>) \o Uint(<<"E", "e">>)),
     Calldata("0x40c10f19", Word(SENDER)),
     Calldata("0x40c10f19", Dirty(SENDER) \o Uint(<<"7">>)),
     Calldata("0x40c10f19", Word(SENDER) \o Uint(<<"7">>) \o <<"a">>),
     Calldata("0x40c10f19", Word(SENDER) \o Rep(64, "z"))}

\* mint(address) and SeaDrop mintPublic
DecodedInputs ==
    {Calldata("0x6a627842", Word(SENDER)),
     Calldata("0x6a627842", Word(SENDER) \o Uint(<<"C", "4">>)),
     Calldata("0x6a627842", <<"1", "2">>),
     Calldata("0x26bf076a", Word(NFT) \o Word(FEE) \o Word(SENDER) \o Uint(<<"1">>)),
     Calldata("0x26bf076a", Word(NFT) \o Word(FEE) \o Word(SENDER) \o Uint(<<"1">>)
                                \o Uint(<<"9">>)),
     Calldata("0x26bf076a", Word(NFT) \o Word(FEE) \o Word(SENDER))}

\* SeaDrop mintSigned, mintAllowList, mintAllowedTokenHolder
SlotInputs ==
    {Calldata("0x4b61cd6f", Word(NFT) \o Word(FEE) \o Word(SENDER) \o Uint(<<"2">>)
                                \o <<"A", "b", "c">>),
     Calldata("0x4b61cd6f", Word(NFT) \o Word(FEE)),
     Calldata("0x2e69ed7f", Word(NFT) \o Word(FEE) \o Word(SENDER)),
     Calldata("0x2e69ed7f", SubSeq(Word(NFT) \o Word(FEE) \o Word(SENDER), 1, 191)),
     Calldata("0x6ab93230", Word(SENDER) \o Word(FEE) \o Uint(<<"5">>) \o Word(SENDER)
                                \o Rep(10, "F"))}

\* selectors replaceRecipientInCalldata does not know
OtherInputs ==
    {Calldata("0xdeadbeef", Word(lowerChars(SENDER))),
     Calldata("0xdeadbeef", Uint(<<"7">>) \o Word(SENDER) \o Word(lowerChars(SENDER))),
     Calldata("0xdeadbeef", <<"1", "2">> \o Word(SENDER) \o <<"3">>),
     Calldata("0xdeadbeef", Uint(<<"7">>)),
     Calldata("0xdeadbeef", <<>>),
     Calldata("0x40C10F19", Word(SENDER) \o Uint(<<"7">>)),
     Calldata("0x1249c58b", <<>>),
     Calldata("0xdeadbeef", Rep(39, "0") \o Word(LOW)),
     Calldata("0xdeadbeef", Word(LOW) \o Word(LOW))}

\* the sender of the original transaction and the address of the replaying key
Parties ==
    {<<SENDER, SIGNER>>, <<lowerChars(SENDER), SIGNER>>, <<LOW, HIGH>>, <<LOW, SIGNER>>,
     <<SENDER, lowerChars(SENDER)>>, <<SIGNER, SIGNER>>}

Jobs ==
    {[NoJob EXCEPT !.kind = kind, !.pc = "new", !.data = d, !.from = x[1], !.signer = x[2]] :
        kind \in {"replaceRecipient", "genericReplace", "attempt"},
        d \in MintInputs \cup DecodedInputs \cup SlotInputs \cup OtherInputs,
        x \in Parties}

(***************************************************************************)
(* The registry (store.ts) and the wallet map cache (monitor.ts).  The      *)
(* store is data.users, a record per user id or NoUser, and dataVersion;    *)
(* a key is its private key and derived address, a tracked wallet its       *)
(* address; threw is the message of the error the last call threw.          *)
(***************************************************************************)
MAX_WALLETS == 20

MaxVersion == 2

StoreIds == {"7", "8"}

NoUser == [walletKeys |-> <<>>, trackedWallets |-> <<>>, chatId |-> 0, username |-> "-"]

\* a wallet map is the set of its entries, lower-cased address and the
\* users that track it; null is no map at all
null == {[address |-> "null", users |-> <<>>]}

\* cachedWalletMap = null, lastKnownDataVersion = -1, an empty store
NoRegistry ==
    [users |-> [u \in StoreIds |-> NoUser], dataVersion |-> 0,
     cachedWalletMap |-> null, lastKnownDataVersion |-> -1, threw |-> ""]

\* new ethers.Wallet(rawPrivateKey).address, '0x???' when it throws
deriveAddress(rawPrivateKey) ==
    CASE rawPrivateKey = "k1" -> "0xB1"
      [] rawPrivateKey = "k2" -> "0xB2"
      [] rawPrivateKey = "k3" -> "0xB3"
      [] rawPrivateKey = "k4" -> "0xB4"
      [] OTHER -> "0x???"

WalletKey(privateKey) == [privateKey |-> privateKey, address |-> deriveAddress(privateKey)]

\* a store as load() reads it from db.json: a subscriber at both limits and
\* one more who tracks the same wallet in other letters
LoadedRegistry ==
    [NoRegistry EXCEPT
        !.users["7"] = [walletKeys |-> <<WalletKey("k1"), WalletKey("k2"), WalletKey("k3")>>,
                        trackedWallets |-> [i \in 1..MAX_WALLETS |->
                                               IF i = 1 THEN "0xAAaa" ELSE "0xW" \o ToString(i)],
                        chatId |-> 7, username |-> "null"],
        !.users["8"] = [walletKeys |-> <<WalletKey("k1")>>, trackedWallets |-> <<"0xaaaa">>,
                        chatId |-> 8, username |-> "null"]]

\* Store.save; the call that led to it returns
save(R, structuralChange) ==
    [R EXCEPT !.dataVersion = IF structuralChange THEN @ + 1 ELSE @, !.threw = ""]

\* throw new Error(message)
Threw(message) == [registry EXCEPT !.threw = message]

userExists(userId) == registry.users[userId] # NoUser

\* the loop of getWalletMap over store.getAllUsers(), users in the order of
\* Object.entries (integer-like ids ascending): per lower-cased address the
\* records of the users that track it
buildWalletMap(R) ==
    LET addrs == UNION {{toLowerCase(w) : w \in Range(R.users[u].trackedWallets)} :
                           u \in StoreIds}
        Entry(u) == [userId |-> u, chatId |-> R.users[u].chatId,
                     username |-> R.users[u].username]
        Hits(u, a) == SelectSeq(R.users[u].trackedWallets, LAMBDA w : toLowerCase(w) = a)
    IN {[address |-> a,
         users |-> [j \in 1..Len(Hits("7", a)) |-> Entry("7")]
                       \o [j \in 1..Len(Hits("8", a)) |-> Entry("8")]] : a \in addrs}

\* what a getWalletMap call returns
walletMapOf(R) ==
    IF R.cachedWalletMap # null /\ R.dataVersion = R.lastKnownDataVersion
    THEN R.cachedWalletMap
    ELSE buildWalletMap(R)

getWalletMapCalled ==
    /\ registry' = [registry EXCEPT !.cachedWalletMap = walletMapOf(registry),
                                    !.lastKnownDataVersion = registry.dataVersion,
                                    !.threw = ""]
    /\ UNCHANGED <<monitor, job>>

updateUsername(userId, username) ==
    /\ userExists(userId) /\ registry.users[userId].username # username
    /\ registry' = save([registry EXCEPT !.users[userId].username = username], FALSE)
    /\ UNCHANGED <<monitor, job>>

addUser(userId, chatId, privateKey) ==
    /\ registry.dataVersion < MaxVersion
    /\ registry' = save([registry EXCEPT
           !.users[userId] = [walletKeys |-> <<WalletKey(privateKey)>>,
                              trackedWallets |-> <<>>, chatId |-> chatId,
                              username |-> "null"]], TRUE)
    /\ UNCHANGED <<monitor, job>>

deleteUser(userId) ==
    /\ registry.dataVersion < MaxVersion
    /\ registry' = save([registry EXCEPT !.users[userId] = NoUser], TRUE)
    /\ UNCHANGED <<monitor, job>>

addWalletKey(userId, privateKey) ==
    /\ LET user == registry.users[userId] IN
       registry' =
           IF ~userExists(userId) THEN Threw("User not found")
           ELSE IF Len(user.walletKeys) >= MAX_KEYS THEN Threw("Maximum 3 keys allowed")
           ELSE IF \E k \in Range(user.walletKeys) :
                      toLowerCase(k.address) = toLowerCase(deriveAddress(privateKey))
           THEN Threw("This wallet is already added")
           ELSE save([registry EXCEPT !.users[userId].walletKeys =
                                          Append(@, WalletKey(privateKey))], FALSE)
    /\ UNCHANGED <<monitor, job>>

\* user.walletKeys.splice(index - 1, 1)
spliceOne(t, index) == SubSeq(t, 1, index - 1) \o SubSeq(t, index + 1, Len(t))

\* faulty variant: the last key can be removed
removeWalletKeyToNone(userId, index) ==
    /\ LET user == registry.users[userId] IN
       registry' =
           IF ~userExists(userId) THEN Threw("User not found")
           ELSE IF index < 1 \/ index > Len(user.walletKeys) THEN Threw("Invalid key number")
           ELSE save([registry EXCEPT !.users[userId].walletKeys = spliceOne(@, index)], FALSE)
    /\ UNCHANGED <<monitor, job>>

removeWalletKey(userId, index) ==
    /\ LET user == registry.users[userId] IN
       registry' =
           IF ~userExists(userId) THEN Threw("User not found")
           ELSE IF index < 1 \/ index > Len(user.walletKeys) THEN Threw("Invalid key number")
           ELSE IF Len(user.walletKeys) <= 1 THEN Threw("Cannot remove your last key")
           ELSE save([registry EXCEPT !.users[userId].walletKeys = spliceOne(@, index)], FALSE)
    /\ UNCHANGED <<monitor, job>>

changeWalletKey(userId, index, newPrivateKey) ==
    /\ LET user == registry.users[userId] IN
       registry' =
           IF ~userExists(userId) THEN Threw("User not found")
           ELSE IF index < 1 \/ index > Len(user.walletKeys) THEN Threw("Invalid key number")
           ELSE save([registry EXCEPT !.users[userId].walletKeys[index] =
                                          WalletKey(newPrivateKey)], FALSE)
    /\ UNCHANGED <<monitor, job>>

\* faulty variant: the wallet is pushed before the limit is looked at
addTrackedWalletPushFirst(userId, address) ==
    /\ registry.dataVersion < MaxVersion
    /\ LET wallets == registry.users[userId].trackedWallets IN
       registry' =
           IF ~userExists(userId) THEN Threw("User not found")
           ELSE IF \E w \in Range(wallets) : toLowerCase(w) = toLowerCase(address)
           THEN Threw("Already tracking this wallet")
           ELSE IF Len(wallets) + 1 > MAX_WALLETS
           THEN [registry EXCEPT !.users[userId].trackedWallets = Append(@, address),
                                 !.threw = "Maximum 20 wallets allowed"]
           ELSE save([registry EXCEPT !.users[userId].trackedWallets = Append(@, address)],
                     TRUE)
    /\ UNCHANGED <<monitor, job>>

addTrackedWallet(userId, address) ==
    /\ registry.dataVersion < MaxVersion
    /\ LET wallets == registry.users[userId].trackedWallets IN
       registry' =
           IF ~userExists(userId) THEN Threw("User not found")
           ELSE IF \E w \in Range(wallets) : toLowerCase(w) = toLowerCase(address)
           THEN Threw("Already tracking this wallet")
           ELSE IF Len(wallets) >= MAX_WALLETS THEN Threw("Maximum 20 wallets allowed")
           ELSE save([registry EXCEPT !.users[userId].trackedWallets = Append(@, address)],
                     TRUE)
    /\ UNCHANGED <<monitor, job>>

removeTrackedWallet(userId, address) ==
    /\ registry.dataVersion < MaxVersion
    /\ LET wallets == registry.users[userId].trackedWallets
           found == {i \in DOMAIN wallets : toLowerCase(wallets[i]) = toLowerCase(address)}
       IN registry' =
           IF ~userExists(userId) THEN Threw("User not found")
           ELSE IF found = {} THEN Threw("Wallet not found")
           ELSE save([registry EXCEPT !.users[userId].trackedWallets =
                          spliceOne(@, CHOOSE i \in found : \A j \in found : i <= j)], TRUE)
    /\ UNCHANGED <<monitor, job>>

migrateToMultiUser(userId, chatId, oldPrivateKey, oldWallets) ==
    /\ registry' = save([registry EXCEPT
           !.users[userId] = [walletKeys |-> <<WalletKey(oldPrivateKey)>>,
                              trackedWallets |-> oldWallets, chatId |-> chatId,
                              username |-> "null"]], FALSE)
    /\ UNCHANGED <<monitor, job>>

(***************************************************************************)
(* One replay attempt (attemptSingleMint), as the record of its position   *)
(* (ph), of the calls it has issued and of the MintResult it returned.     *)
(***************************************************************************)
MintResult(success, error, skippedPrecheck, txHash) ==
    [success |-> success, error |-> error,
     skippedPrecheck |-> skippedPrecheck, txHash |-> txHash]

Pending(key, ph, est, send) ==
    [address |-> key.address, ph |-> ph, pre |-> "none", est |-> est, send |-> send,
     stats |-> 0, res |-> MintResult(FALSE, <<>>, FALSE, FALSE)]

Settled(a, stats, res) == [a EXCEPT !.ph = "done", !.stats = @ + stats, !.res = res]

\* faulty variant: the value guard is missing
paidMintIgnored(tx) == FALSE

\* originalTx.value > 0n
paidMint(tx) == tx.value > 0

\* faulty variant: the addresses are compared as written, not lower-cased
selfCopyExact(tx, signerAddress) == tx.from = signerAddress

\* originalTx.from.toLowerCase() === signer.address.toLowerCase()
selfCopy(tx, signerAddress) == toLowerCase(tx.from) = toLowerCase(signerAddress)

\* the async callback of keys.map up to its first pending await
attemptSingleMint(tx, key) ==
    LET a == Pending(key, "est", 0, 0) IN
    IF key.pk = "invalid"
    THEN Settled(a, 0, MintResult(FALSE, <<"invalid private key">>, FALSE, FALSE))
    ELSE IF tx.to = ""
    THEN Settled(a, 0, MintResult(FALSE, <<"No target address">>, FALSE, FALSE))
    ELSE IF paidMint(tx)
    THEN Settled(a, 0, MintResult(FALSE,
                 <<"Skipped paid mint (", formatEther(tx.value), " ETH)">>, FALSE, FALSE))
    ELSE IF selfCopy(tx, key.address)
    THEN Settled(a, 0, MintResult(FALSE, <<"Self-copy skipped">>, FALSE, FALSE))
    ELSE Pending(key, "est", 1, 0)

\* faulty variant: a rejected pre-check is broadcast all the same
preCheckIgnored(a) == [a EXCEPT !.ph = "send", !.send = @ + 1]

\* preCheckMint returned { pass: false }: record the attempt, return the result
preCheckFailed(a) ==
    Settled(a, 1, MintResult(FALSE, <<"Pre-check failed">>, TRUE, FALSE))

\* preCheckMint returned { pass: true }: signer.sendTransaction
preCheckPassed(a) == [a EXCEPT !.ph = "send", !.send = @ + 1]

\* sendTransaction resolved: record the success
sendResolved(a) == Settled(a, 1, MintResult(TRUE, <<>>, FALSE, TRUE))

\* faulty variant: a failed broadcast is sent once more
sendAgain(a) ==
    IF a.send < 2 THEN [a EXCEPT !.send = @ + 1]
    ELSE Settled(a, 1, MintResult(FALSE, <<"Transaction reverted">>, FALSE, FALSE))

\* sendTransaction threw: the catch block
sendFailed(a) == Settled(a, 1, MintResult(FALSE, <<"Transaction reverted">>, FALSE, FALSE))

(***************************************************************************)
(* attemptMintAllKeys: one task per subscriber                             *)
(***************************************************************************)
NewTask(u, privileged) ==
    [u |-> u, admin |-> privileged, keys |-> getAllDecryptedKeys(u), st |-> "new", att |-> <<>>]

\* faulty variant: Promise.all, which settles on the first rejection
allOrFirstRejection(att) ==
    \/ \A k \in DOMAIN att : att[k].ph = "done"
    \/ \E k \in DOMAIN att : att[k].res.error = <<"invalid private key">>

\* Promise.allSettled over the key attempts
allSettled(att) == \A k \in DOMAIN att : att[k].ph = "done"

\* bot.api.sendMessage(chatId, ...) is called; key is the key a confirmation
\* message is about, 0 otherwise
Message(kind, key) == [kind |-> kind, key |-> key, st |-> "sent"]

\* faulty variant: every attempt gets a confirmation wait
waitForEveryResult(att) == [k \in DOMAIN att |-> "wait"]

\* successes.forEach(res => res.txHash && waitForConfirmation(...))
waitForSuccesses(att) ==
    [k \in DOMAIN att |->
        IF att[k].res.success /\ att[k].res.txHash THEN "wait" ELSE "none"]

\* faulty variant: one message for the result of each key
settleTaskPerKey(M, h, t) ==
    LET task == M.pr.tasks[t] IN
    IF task.st # "run" \/ ~allSettled(task.att) THEN M
    ELSE [M EXCEPT !.ou[h][task.u] = @ \o task.att,
                   !.no[h] = @ + Len(task.att),
                   !.sn[h][task.u] = @ \o [k \in DOMAIN task.att |-> Message("results", 0)],
                   !.wa[h][task.u] = @ \o waitForSuccesses(task.att),
                   !.pr.tasks[t].st = "done"]

\* the continuation of `await mintPromise`: results, one bundled message,
\* the confirmation waits
settleTask(M, h, t) ==
    LET task == M.pr.tasks[t] IN
    IF task.st # "run" \/ ~allSettled(task.att) THEN M
    ELSE [M EXCEPT !.ou[h][task.u] = @ \o task.att,
                   !.no[h] = @ + (IF task.att # <<>> THEN 1 ELSE 0),
                   !.sn[h][task.u] = IF task.att # <<>>
                                     THEN Append(@, Message("results", 0)) ELSE @,
                   !.wa[h][task.u] = @ \o waitForSuccesses(task.att),
                   !.pr.tasks[t].st = "done"]

attemptMintAllKeys(M, tx, t) ==
    LET task == M.pr.tasks[t]
        h == tx.hash
        M1 == [M EXCEPT !.ca[h][task.u] = @ + 1]
        paid == [k \in 1..Len(task.keys) |->
                    Settled(Pending(task.keys[k], "est", 0, 0), 0,
                            MintResult(FALSE, <<"Paid (", formatEther(tx.value), " ETH)">>,
                                       FALSE, FALSE))]
        fired == [k \in 1..Len(task.keys) |-> attemptSingleMint(tx, task.keys[k])]
    IN IF tx.to = "" THEN [M1 EXCEPT !.pr.tasks[t].st = "done"]
       ELSE IF paidMint(tx)
       THEN [M1 EXCEPT !.no[h] = @ + 1, !.ou[h][task.u] = @ \o paid,
                       !.sn[h][task.u] = Append(@, Message("skipped", 0)),
                       !.wa[h][task.u] = @ \o [k \in DOMAIN paid |-> "none"],
                       !.pr.tasks[t].st = "done", !.pr.tasks[t].att = paid]
       ELSE settleTask([M1 EXCEPT !.no[h] = @ + 1,
                                  !.sn[h][task.u] = Append(@, Message("detected", 0)),
                                  !.pr.tasks[t].st = "run",
                                  !.pr.tasks[t].att = fired], h, t)

(***************************************************************************)
(* processBlock, processMintBatches and the poll loop.  M is the state a    *)
(* handler works on: the shared variables and its own record pr.           *)
(***************************************************************************)
IdleProc ==
    [kind |-> "idle", chain |-> "", pc |-> "idle", currentBlock |-> 0, blockNum |-> 0,
     attempt |-> 0, rpcUrl |-> 0, threw |-> "", startBlock |-> 0, did |-> <<>>,
     txi |-> 0, tasks |-> <<>>, nadm |-> 0, lo |-> 0]

Machine(p) ==
    [pt |-> processedTxs, cur |-> lastCheckedBlock, se |-> seen, cl |-> classified,
     ca |-> calls,
     ou |-> outs, no |-> notes, sn |-> sent, wa |-> waits,
     dn |-> done, ha |-> handed, ow |-> owner,
     pr |-> procs[p]]

CurrentTx(pr) == ledger[pr.chain][pr.blockNum][pr.txi]

\* faulty variant: the slice takes every remaining task
batchEndUnbounded(i, n) == n

\* slice(i, i + BATCH_SIZE) of n tasks: the index after the last task taken
batchEnd(i, n) == Min(i + BATCH_SIZE, n)

\* faulty variant: the privileged call is not awaited
adminNotAwaited(task) == TRUE

\* `await attemptMintAllKeys(...)` of the privileged subscriber has returned
adminSettled(task) == task.st = "done"

\* faulty variant: no block number counts as already checked
behindCursorNever(blockNumber, lastBlock) == FALSE

\* blockNumber <= lastBlock: the block was already handed to processBlock
behindCursor(blockNumber, lastBlock) == blockNumber <= lastBlock

\* rpcUrls[attempt % rpcUrls.length], as an index into rpcUrls
endpoint(attempt, n) == attempt % n

\* faulty variant: the poll loop takes the head only
startBlockAtHead(lastBlock, currentBlock) == currentBlock

\* faulty variant: the poll loop starts right after the cursor
startBlockNoWindow(lastBlock, currentBlock) == lastBlock + 1

\* Math.max(lastBlock + 1, currentBlock - 2)
startBlock(lastBlock, currentBlock) == Max(lastBlock + 1, currentBlock - POLL_LOOKBACK)

\* faulty variant: one attempt more than maxRetries
retryRpcOnceMore(isRetryable, attempt) == isRetryable /\ attempt < maxRetries

\* faulty variant: every error is retried
retryRpcAnyError(isRetryable, attempt) == attempt < maxRetries - 1

\* isRetryable && attempt < maxRetries - 1
retryRpc(isRetryable, attempt) == isRetryable /\ attempt < maxRetries - 1

RECURSIVE startTasks(_, _, _, _)
startTasks(M, tx, t, hi) ==
    IF t > hi THEN M ELSE startTasks(attemptMintAllKeys(M, tx, t), tx, t + 1, hi)

RECURSIVE txLoop(_, _), processMintBatches(_, _), pollLoop(_, _), afterBlock(_)

\* the orchestration of the current transaction is over: next transaction
txDone(M) ==
    txLoop([M EXCEPT !.dn[CurrentTx(M.pr).hash] = @ + 1,
                     !.pr.tasks = <<>>, !.pr.nadm = 0, !.pr.lo = 0],
           M.pr.txi + 1)

\* faulty variant: the batch is not awaited
batchNotAwaited(M) ==
    LET pr == M.pr
        n == Len(pr.tasks) - pr.nadm
    IN IF pr.lo + BATCH_SIZE < n THEN [M EXCEPT !.pr.pc = "sleep"]
       ELSE processMintBatches(M, pr.lo + BATCH_SIZE)

\* the continuation of `await Promise.allSettled(batch.map(task => task()))`
batchSettled(M) ==
    LET pr == M.pr
        n == Len(pr.tasks) - pr.nadm
        hi == batchEnd(pr.lo, n)
    IN IF \E t \in (pr.nadm + pr.lo + 1)..(pr.nadm + hi) : pr.tasks[t].st # "done"
       THEN [M EXCEPT !.pr.pc = "batch"]
       ELSE IF pr.lo + BATCH_SIZE < n THEN [M EXCEPT !.pr.pc = "sleep"]
       ELSE processMintBatches(M, pr.lo + BATCH_SIZE)

\* the for loop of processMintBatches from i
processMintBatches(M, i) ==
    LET pr == M.pr
        n == Len(pr.tasks) - pr.nadm
    IN IF i >= n THEN txDone(M)
       ELSE batchSettled(startTasks([M EXCEPT !.pr.lo = i], CurrentTx(pr),
                                    pr.nadm + i + 1, pr.nadm + batchEnd(i, n)))

\* "Everyone else in staggered batches"
replayOthers(M) ==
    LET tx == CurrentTx(M.pr)
        others == otherTrackers(getWalletMap(toLowerCase(tx.from)))
        keyed == SelectSeq(others, LAMBDA u : getAllDecryptedKeys(u) # <<>>)
        mintTasks == [j \in 1..Len(keyed) |-> NewTask(keyed[j], FALSE)]
    IN processMintBatches([M EXCEPT !.pr.tasks = @ \o mintTasks], 0)

\* "ADMIN PRIORITY: fire admin's keys first"
replayAdmin(M) ==
    LET tx == CurrentTx(M.pr)
        adm == adminTracker(getWalletMap(toLowerCase(tx.from)))
    IN IF adm # <<>> /\ getAllDecryptedKeys(adm[1]) # <<>>
       THEN LET M1 == attemptMintAllKeys(
                          [M EXCEPT !.pr.tasks = <<NewTask(adm[1], TRUE)>>, !.pr.nadm = 1],
                          tx, 1)
            IN IF adminSettled(M1.pr.tasks[1]) THEN replayOthers(M1)
               ELSE [M1 EXCEPT !.pr.pc = "admin"]
       ELSE replayOthers(M)

\* the for loop of processBlock over block.prefetchedTransactions from index i
txLoop(M, i) ==
    LET pr == M.pr
        txs == ledger[pr.chain][pr.blockNum]
    IN IF i > Len(txs) THEN afterBlock([M EXCEPT !.pr.txi = 0])
       ELSE LET tx == txs[i]
                h == tx.hash
                looked == [M EXCEPT !.se[h] = @ + 1]
                marked == [looked EXCEPT !.pt = add(@, h), !.ow[h] = pr.chain]
                judged == [marked EXCEPT !.cl[h] = @ + 1]
            IN IF getWalletMap(toLowerCase(tx.from)) = <<>> THEN txLoop(M, i + 1)
               ELSE IF has(M.pt, h) THEN txLoop(looked, i + 1)
               ELSE IF NoCalldata(tx.data) THEN txLoop(marked, i + 1)
               ELSE IF tx.to = "" THEN txLoop(marked, i + 1)
               ELSE IF ~isLikelyNFTMint(tx.data) THEN txLoop(judged, i + 1)
               ELSE replayAdmin([judged EXCEPT !.pr.txi = i])

\* processBlock up to the block fetch
processBlock(M, blockNum) ==
    LET M1 == [M EXCEPT !.ha[M.pr.chain] = Append(@, blockNum),
                        !.pr.did = Append(@, blockNum)] IN
    IF walletMapEmpty THEN afterBlock([M1 EXCEPT !.pr.blockNum = blockNum])
    ELSE [M1 EXCEPT !.pr.blockNum = blockNum, !.pr.pc = "fetch", !.pr.attempt = 0,
                    !.pr.rpcUrl = endpoint(0, chains[M.pr.chain].rpcUrls)]

\* the for loop of the poll callback from blockNum
pollLoop(M, blockNum) ==
    IF blockNum > M.pr.currentBlock
    THEN [M EXCEPT !.pt = cleanupProcessedTxs(@), !.pr = IdleProc]
    ELSE IF behindCursor(blockNum, M.cur[M.pr.chain]) THEN pollLoop(M, blockNum + 1)
    ELSE processBlock([M EXCEPT !.cur[M.pr.chain] = blockNum], blockNum)

\* processBlock has returned to the handler that awaited it
afterBlock(M) ==
    IF M.pr.kind = "ws"
    THEN [M EXCEPT !.pt = cleanupProcessedTxs(@), !.pr = IdleProc]
    ELSE pollLoop(M, M.pr.blockNum + 1)

\* an attempt of task t has settled: the awaits this releases
resume(M, t) ==
    LET M1 == settleTask(M, CurrentTx(M.pr).hash, t)
        task == M1.pr.tasks[t]
    IN IF task.st # "done" THEN M1
       ELSE IF task.admin THEN (IF M1.pr.pc = "admin" THEN replayOthers(M1) ELSE M1)
       ELSE IF M1.pr.pc = "batch" THEN batchSettled(M1)
       ELSE M1

Commit(M, p) ==
    /\ processedTxs' = M.pt
    /\ lastCheckedBlock' = M.cur
    /\ seen' = M.se
    /\ classified' = M.cl
    /\ calls' = M.ca
    /\ outs' = M.ou
    /\ notes' = M.no
    /\ sent' = M.sn
    /\ waits' = M.wa
    /\ done' = M.dn
    /\ handed' = M.ha
    /\ owner' = M.ow
    /\ procs' = [procs EXCEPT ![p] = M.pr]

\* the slot a new handler invocation takes
FreeSlot(p) ==
    /\ p \in DOMAIN procs
    /\ procs[p].kind = "idle"
    /\ \A q \in DOMAIN procs : q < p => procs[q].kind # "idle"

(***************************************************************************)
(* Initial state                                                           *)
(***************************************************************************)
InitWith(sc) ==
    /\ users = sc.users
    /\ ADMIN_ID = sc.ADMIN_ID
    /\ chains = sc.chains
    /\ ledger = sc.ledger
    /\ rpcFaulty = sc.rpcFaulty
    /\ botFaulty = sc.botFaulty
    /\ mined = sc.mined
    /\ head = [c \in ChainNames |-> IF sc.ledger[c] = <<>> THEN 0 ELSE 1]
    /\ timers = {}
    /\ wsOpen = {}
    /\ wsDown = [c \in ChainNames |-> "none"]
    /\ wsFaults = sc.wsFaults
    /\ lastCheckedBlock = [c \in ChainNames |-> 0]
    /\ processedTxs = sc.processedTxs
    /\ procs = [p \in 1..sc.handlers |-> IdleProc]
    /\ seen = [h \in Hashes |-> 0]
    /\ classified = [h \in Hashes |-> 0]
    /\ calls = [h \in Hashes |-> [u \in 1..Len(sc.users) |-> 0]]
    /\ outs = [h \in Hashes |-> [u \in 1..Len(sc.users) |-> <<>>]]
    /\ notes = [h \in Hashes |-> 0]
    /\ sent = [h \in Hashes |-> [u \in 1..Len(sc.users) |-> <<>>]]
    /\ waits = [h \in Hashes |-> [u \in 1..Len(sc.users) |-> <<>>]]
    /\ done = [h \in Hashes |-> 0]
    /\ handed = [c \in ChainNames |-> <<>>]
    /\ owner = [h \in Hashes |-> ""]

Init ==
    /\ \E sc \in Scenarios : InitWith(sc)
    /\ job = NoJob
    /\ registry = NoRegistry

(***************************************************************************)
(* Actions                                                                 *)
(***************************************************************************)
\* chain.rpcUrls.length === 0 makes startMonitoring skip the chain
hasEndpoints(chain) == chain.rpcUrls > 0

\* faulty variant: the subscription is started whatever wsUrl holds
startsWebSocketAlways(chain) == TRUE

\* `if (chain.wsUrl)`, `if (!chain.wsUrl) return`
startsWebSocket(chain) == chain.wsUrl

\* the chains startMonitoring calls startWebSocketListener for
Subscribed == {c \in ChainNames : hasEndpoints(chains[c]) /\ startsWebSocket(chains[c])}

\* startMonitoring: a poll timer per chain with endpoints, connect() where
\* wsUrl is set; `new WebSocketProvider` throws on the chains in threw
startMonitoring ==
    /\ timers = {}
    /\ \E threw \in SUBSET Subscribed :
          /\ Cardinality(threw) <= wsFaults
          /\ timers' = {c \in ChainNames : hasEndpoints(chains[c])}
          /\ wsOpen' = Subscribed \ threw
          /\ wsDown' = [c \in ChainNames |-> IF c \in threw THEN "threw" ELSE "none"]
          /\ wsFaults' = wsFaults - Cardinality(threw)
    /\ UNCHANGED <<config, head, lastCheckedBlock, processedTxs, procs, history>>

\* wsProvider.on('error'): the error is logged
wsError(c) ==
    /\ c \in wsOpen
    /\ wsFaults > 0
    /\ wsDown' = [wsDown EXCEPT ![c] = "error"]
    /\ wsFaults' = wsFaults - 1
    /\ UNCHANGED <<config, head, timers, wsOpen, lastCheckedBlock, processedTxs, procs,
                   history>>

\* ws.on('close'): the pool entry is cleared, setTimeout(connect, 5000)
wsClose(c) ==
    /\ c \in wsOpen
    /\ wsFaults > 0
    /\ wsOpen' = wsOpen \ {c}
    /\ wsDown' = [wsDown EXCEPT ![c] = "close"]
    /\ wsFaults' = wsFaults - 1
    /\ UNCHANGED <<config, head, timers, lastCheckedBlock, processedTxs, procs, history>>

\* the reconnect timer fires: connect() subscribes again, or throws
wsReconnect(c, threw) ==
    /\ wsDown[c] = "close"
    /\ threw => wsFaults > 0
    /\ wsOpen' = IF threw THEN wsOpen ELSE wsOpen \cup {c}
    /\ wsDown' = [wsDown EXCEPT ![c] = IF threw THEN "threw" ELSE "none"]
    /\ wsFaults' = IF threw THEN wsFaults - 1 ELSE wsFaults
    /\ UNCHANGED <<config, head, timers, lastCheckedBlock, processedTxs, procs, history>>

\* environment: the chain grows by one block
NewBlock(c) ==
    /\ head[c] < Len(ledger[c])
    /\ head' = [head EXCEPT ![c] = @ + 1]
    /\ UNCHANGED <<config, sockets, lastCheckedBlock, processedTxs, procs, history>>

\* wsProvider.on('block'): block number n is pushed
wsBlock(c, n, p) ==
    /\ c \in wsOpen
    /\ FreeSlot(p)
    /\ ~behindCursor(n, lastCheckedBlock[c])
    /\ LET M == [Machine(p) EXCEPT !.pr.kind = "ws", !.pr.chain = c, !.cur[c] = n]
       IN Commit(processBlock(M, n), p)
    /\ UNCHANGED <<config, head, sockets>>

\* the setInterval callback up to `await rpcCallWithRetry(getBlockNumber)`
pollTick(c, p) ==
    /\ c \in timers
    /\ FreeSlot(p)
    /\ ~walletMapEmpty
    /\ procs' = [procs EXCEPT ![p] = [IdleProc EXCEPT !.kind = "poll", !.chain = c,
                                                       !.pc = "height",
                                                       !.rpcUrl = endpoint(0, chains[c].rpcUrls)]]
    /\ UNCHANGED <<config, head, sockets, lastCheckedBlock, processedTxs, history>>

\* getBlockNumber resolved with the head of the chain
heightResolved(p) ==
    /\ p \in DOMAIN procs
    /\ procs[p].pc = "height"
    /\ LET M == [Machine(p) EXCEPT !.pr.attempt = 0, !.pr.rpcUrl = 0]
           currentBlock == head[M.pr.chain]
           cursor == lastCheckedBlock[M.pr.chain]
           lastBlock == IF cursor # 0 THEN cursor ELSE currentBlock - 1
           from == startBlock(lastBlock, currentBlock)
       IN IF currentBlock <= lastBlock
          THEN Commit([M EXCEPT !.pr = IdleProc], p)
          ELSE Commit(pollLoop([M EXCEPT !.pr.currentBlock = currentBlock,
                                         !.pr.startBlock = from], from), p)
    /\ UNCHANGED <<config, head, sockets>>

\* an RPC action threw inside rpcCallWithRetry
rpcFailed(p, isRetryable) ==
    /\ p \in DOMAIN procs
    /\ procs[p].pc \in {"height", "fetch"}
    /\ rpcFaulty
    /\ LET M == Machine(p) IN
       IF retryRpc(isRetryable, M.pr.attempt)
       THEN Commit([M EXCEPT !.pr.pc = IF @ = "height" THEN "heightBackoff"
                                        ELSE "fetchBackoff"], p)
       ELSE IF M.pr.pc = "height" THEN Commit([M EXCEPT !.pr = IdleProc], p)
       ELSE Commit(afterBlock([M EXCEPT !.pr.attempt = 0, !.pr.rpcUrl = 0,
                                        !.pr.threw = IF isRetryable THEN "exhausted"
                                                     ELSE "fatal"]), p)
    /\ UNCHANGED <<config, head, sockets>>

\* the backoff sleep of rpcCallWithRetry is over: next attempt
rpcRetry(p) ==
    /\ p \in DOMAIN procs
    /\ procs[p].pc \in {"heightBackoff", "fetchBackoff"}
    /\ procs' = [procs EXCEPT ![p].attempt = @ + 1,
                              ![p].rpcUrl = endpoint(procs[p].attempt + 1,
                                                     chains[procs[p].chain].rpcUrls),
                              ![p].pc = IF @ = "heightBackoff" THEN "height" ELSE "fetch"]
    /\ UNCHANGED <<config, head, sockets, lastCheckedBlock, processedTxs, history>>

\* getBlock(blockNum, true) resolved: with the block, or with null
blockFetched(p, found) ==
    /\ p \in DOMAIN procs
    /\ procs[p].pc = "fetch"
    /\ LET M == [Machine(p) EXCEPT !.pr.attempt = 0, !.pr.rpcUrl = 0]
       IN Commit(IF found THEN txLoop(M, 1) ELSE afterBlock(M), p)
    /\ UNCHANGED <<config, head, sockets>>

InFlight(p, t, k, ph) ==
    /\ p \in DOMAIN procs
    /\ procs[p].pc \in {"admin", "batch", "sleep"}
    /\ t \in DOMAIN procs[p].tasks
    /\ procs[p].tasks[t].st = "run"
    /\ k \in DOMAIN procs[p].tasks[t].att
    /\ procs[p].tasks[t].att[k].ph = ph

Attempted(p, t, k, a) ==
    /\ Commit(resume([Machine(p) EXCEPT !.pr.tasks[t].att[k] = a], t), p)
    /\ UNCHANGED <<config, head, sockets>>

\* signer.estimateGas resolved
estimateGasResolved(p, t, k) ==
    /\ InFlight(p, t, k, "est")
    /\ Attempted(p, t, k, preCheckPassed([procs[p].tasks[t].att[k] EXCEPT !.pre = "pass"]))

\* signer.estimateGas threw with a message preCheckMint classifies
estimateGasFailed(p, t, k) ==
    /\ InFlight(p, t, k, "est")
    /\ Attempted(p, t, k, preCheckFailed([procs[p].tasks[t].att[k] EXCEPT !.pre = "fail"]))

\* signer.estimateGas threw 'missing revert data': the static call fallback
estimateGasVague(p, t, k) ==
    /\ InFlight(p, t, k, "est")
    /\ Attempted(p, t, k, [procs[p].tasks[t].att[k] EXCEPT !.ph = "call", !.pre = "fail"])

\* signer.call of the fallback settled, either way
staticCallSettled(p, t, k) ==
    /\ InFlight(p, t, k, "call")
    /\ Attempted(p, t, k, preCheckFailed(procs[p].tasks[t].att[k]))

\* signer.sendTransaction resolved
sendTransactionResolved(p, t, k) ==
    /\ InFlight(p, t, k, "send")
    /\ Attempted(p, t, k, sendResolved(procs[p].tasks[t].att[k]))

\* signer.sendTransaction threw
sendTransactionFailed(p, t, k) ==
    /\ InFlight(p, t, k, "send")
    /\ Attempted(p, t, k, sendFailed(procs[p].tasks[t].att[k]))

\* sleep(BATCH_DELAY_MS) between two batches is over
batchDelay(p) ==
    /\ p \in DOMAIN procs
    /\ procs[p].pc = "sleep"
    /\ Commit(processMintBatches(Machine(p), procs[p].lo + BATCH_SIZE), p)
    /\ UNCHANGED <<config, head, sockets>>

\* faulty variant: no .catch on the promise; the unhandled rejection ends the
\* process and with it every handler invocation
sendMessageUncaught(h, u, i) ==
    /\ botFaulty
    /\ u \in DOMAIN sent[h] /\ i \in DOMAIN sent[h][u]
    /\ sent[h][u][i].st = "sent"
    /\ sent' = [sent EXCEPT ![h][u][i].st = "failed"]
    /\ procs' = [p \in DOMAIN procs |-> IdleProc]
    /\ UNCHANGED <<config, head, sockets, lastCheckedBlock, processedTxs, seen,
                   classified, calls, outs, notes, waits, done, handed, owner>>

\* the promise of a sendMessage call rejected: the .catch handler logs
sendMessageFailed(h, u, i) ==
    /\ botFaulty
    /\ u \in DOMAIN sent[h] /\ i \in DOMAIN sent[h][u]
    /\ sent[h][u][i].st = "sent"
    /\ sent' = [sent EXCEPT ![h][u][i].st = "failed"]
    /\ UNCHANGED <<config, head, sockets, lastCheckedBlock, processedTxs, procs, seen,
                   classified, calls, outs, notes, waits, done, handed, owner>>

Waiting(h, u, k) ==
    /\ mined
    /\ u \in DOMAIN waits[h] /\ k \in DOMAIN waits[h][u]
    /\ waits[h][u][k] = "wait"

\* provider.waitForTransaction(hash) resolved with a receipt (or null):
\* waitForConfirmation sends the message for its status
receiptResolved(h, u, k, status) ==
    /\ Waiting(h, u, k)
    /\ LET kind == IF status = 1 THEN "confirmed" ELSE "reverted" IN
       /\ waits' = [waits EXCEPT ![h][u][k] = kind]
       /\ sent' = [sent EXCEPT ![h][u] = Append(@, Message(kind, k))]
       /\ notes' = [notes EXCEPT ![h] = @ + 1]
    /\ UNCHANGED <<config, head, sockets, lastCheckedBlock, processedTxs, procs, seen,
                   classified, calls, outs, done, handed, owner>>

\* provider.waitForTransaction(hash) threw: the catch block of
\* waitForConfirmation logs
waitForTransactionFailed(h, u, k) ==
    /\ Waiting(h, u, k)
    /\ waits' = [waits EXCEPT ![h][u][k] = "error"]
    /\ UNCHANGED <<config, head, sockets, lastCheckedBlock, processedTxs, procs, seen,
                   classified, calls, outs, notes, sent, done, handed, owner>>

TaskIds == 1..(1 + BATCH_SIZE + ExtraTasks)

\* a summary, a first message and at most a confirmation per key
MessageIds == 1..(2 + MAX_KEYS)

KeyIds == 1..MAX_KEYS

Next ==
    \/ startMonitoring
    \/ \E c \in ChainNames : NewBlock(c)
    \/ \E c \in ChainNames : wsError(c)
    \/ \E c \in ChainNames : wsClose(c)
    \/ \E c \in ChainNames, threw \in BOOLEAN : wsReconnect(c, threw)
    \/ \E c \in ChainNames, p \in ProcIds : \E n \in 1..head[c] : wsBlock(c, n, p)
    \/ \E c \in ChainNames, p \in ProcIds : pollTick(c, p)
    \/ \E p \in ProcIds : heightResolved(p)
    \/ \E p \in ProcIds, isRetryable \in BOOLEAN : rpcFailed(p, isRetryable)
    \/ \E p \in ProcIds : rpcRetry(p)
    \/ \E p \in ProcIds, found \in BOOLEAN : blockFetched(p, found)
    \/ \E p \in ProcIds, t \in TaskIds, k \in KeyIds : estimateGasResolved(p, t, k)
    \/ \E p \in ProcIds, t \in TaskIds, k \in KeyIds : estimateGasFailed(p, t, k)
    \/ \E p \in ProcIds, t \in TaskIds, k \in KeyIds : estimateGasVague(p, t, k)
    \/ \E p \in ProcIds, t \in TaskIds, k \in KeyIds : staticCallSettled(p, t, k)
    \/ \E p \in ProcIds, t \in TaskIds, k \in KeyIds : sendTransactionResolved(p, t, k)
    \/ \E p \in ProcIds, t \in TaskIds, k \in KeyIds : sendTransactionFailed(p, t, k)
    \/ \E p \in ProcIds : batchDelay(p)
    \/ \E h \in Hashes, u \in DOMAIN users, i \in MessageIds : sendMessageFailed(h, u, i)
    \/ \E h \in Hashes, u \in DOMAIN users, k \in KeyIds, status \in {0, 1} :
          receiptResolved(h, u, k, status)
    \/ \E h \in Hashes, u \in DOMAIN users, k \in KeyIds : waitForTransactionFailed(h, u, k)

Spec == Init /\ [][Next]_vars

(***************************************************************************)
(* Rewriting runs: the functions of calldata_utils.ts applied to a job,    *)
(* and the part of attemptSingleMint that builds and submits txRequest.    *)
(***************************************************************************)
\* replaceRecipientInCalldata(job.data, job.signer)
replaceRecipientCalled ==
    /\ job.kind = "replaceRecipient" /\ job.pc = "new"
    /\ job' = [job EXCEPT !.pc = "done",
                          !.out = replaceRecipientInCalldata(job.data, job.signer)]
    /\ UNCHANGED watcher

\* genericReplaceAddress(job.data, job.from, job.signer)
genericReplaceCalled ==
    /\ job.kind = "genericReplace" /\ job.pc = "new"
    /\ LET r == genericReplaceAddress(job.data, job.from, job.signer)
       IN job' = [job EXCEPT !.pc = "done", !.out = r.data, !.replacements = r.replacements]
    /\ UNCHANGED watcher

\* attemptSingleMint past its guards: txRequest is built and handed to
\* preCheckMint, whose estimateGas is then pending
requestBuilt ==
    /\ job.kind = "attempt" /\ job.pc = "new"
    /\ lowerChars(job.from) # lowerChars(job.signer)
    /\ LET calldata == constructCalldata([data |-> job.data, from |-> job.from], job.signer)
       IN job' = [job EXCEPT !.pc = "est", !.out = calldata, !.estimated = calldata]
    /\ UNCHANGED watcher

\* preCheckMint returned: sendTransaction(txRequest) when it passed
requestChecked(pass) ==
    /\ job.kind = "attempt" /\ job.pc = "est"
    /\ job' = IF pass THEN [job EXCEPT !.pc = "send", !.broadcast = job.out]
              ELSE [job EXCEPT !.pc = "done"]
    /\ UNCHANGED watcher

\* sendTransaction settled
requestSent ==
    /\ job.kind = "attempt" /\ job.pc = "send"
    /\ job' = [job EXCEPT !.pc = "done"]
    /\ UNCHANGED watcher

InitCalldata ==
    /\ InitWith(ScnNoWallets)
    /\ job \in Jobs
    /\ registry = NoRegistry

NextCalldata ==
    \/ replaceRecipientCalled
    \/ genericReplaceCalled
    \/ requestBuilt
    \/ \E pass \in BOOLEAN : requestChecked(pass)
    \/ requestSent

SpecCalldata == InitCalldata /\ [][NextCalldata]_vars

(***************************************************************************)
(* A run of registry calls: the store as constructed or as loaded, then     *)
(* any sequence of the mutating methods and of getWalletMap.                *)
(***************************************************************************)
InitStore ==
    /\ InitWith(ScnNoWallets)
    /\ job = NoJob
    /\ registry \in {NoRegistry, LoadedRegistry}

NextStore ==
    \/ getWalletMapCalled
    \/ updateUsername("7", "bob")
    \/ \E c \in {<<"7", 70>>, <<"8", 8>>} : addUser(c[1], c[2], "k1")
    \/ deleteUser("8")
    \/ \E privateKey \in {"k1", "k2"} : addWalletKey("7", privateKey)
    \/ \E index \in 1..MAX_KEYS : removeWalletKey("7", index)
    \/ changeWalletKey("7", 2, "k1")
    \/ \E address \in {"0xaaaa", "0xCCcc"} : addTrackedWallet("7", address)
    \/ removeTrackedWallet("7", "0xAAaa")
    \/ migrateToMultiUser("8", 8, "k1", <<"0xCCcc">>)

SpecStore == InitStore /\ [][NextStore]_vars

(***************************************************************************)
(* What the claims speak about                                             *)
(***************************************************************************)
LedgerTxs ==
    UNION {UNION {Range(ledger[c][b]) : b \in DOMAIN ledger[c]} : c \in ChainNames}

InLedger(h) == \E tx \in LedgerTxs : tx.hash = h

TxByHash(h) == CHOOSE tx \in LedgerTxs : tx.hash = h

\* the attempts of the calls that have not returned yet, with hash and subscriber
LiveAttempts ==
    {<<CurrentTx(procs[p]).hash, procs[p].tasks[t].u, procs[p].tasks[t].att[k]>> :
        <<p, t, k>> \in {x \in (DOMAIN procs) \X TaskIds \X KeyIds :
                            /\ x[2] \in DOMAIN procs[x[1]].tasks
                            /\ x[3] \in DOMAIN procs[x[1]].tasks[x[2]].att}}

\* the attempts of the calls that have returned
ReturnedAttempts ==
    {<<x[1], x[2], outs[x[1]][x[2]][x[3]]>> :
        x \in {y \in Hashes \X (1..Len(users)) \X (1..(2 * MAX_KEYS)) :
                  y[3] \in DOMAIN outs[y[1]][y[2]]}}

Attempts == LiveAttempts \cup ReturnedAttempts

\* the sender of a transaction is in the interest index
SenderTracked(tx) ==
    \E u \in 1..Len(users) : \E w \in Range(users[u].trackedWallets) :
        toLowerCase(w) = toLowerCase(tx.from)

\* C1: a hash that is in processedTxs is not classified again; a subscriber is
\* handed a hash at most once; and the hash is in processedTxs from the step on
\* in which the first hand-over for it is made.
C1_Dedup ==
    [][\A h \in Hashes :
          /\ h \in Range(processedTxs) => classified'[h] = classified[h]
          /\ \A u \in 1..Len(users) : calls'[h][u] # calls[h][u] =>
                /\ calls[h][u] = 0 /\ calls'[h][u] = 1
                /\ h \in Range(processedTxs')]_vars

\* C1 witness: a replayed hash was delivered a second time and skipped
C1_Witness ==
    /\ seen["h1"] >= 2
    /\ classified["h1"] = 1
    /\ calls["h1"][1] = 1

\* C2: while an attempt of the privileged subscriber is unsettled, no other
\* subscriber's call for that transaction has started.
C2_AdminFirst ==
    \A p \in DOMAIN procs : \A t, o \in DOMAIN procs[p].tasks :
        (procs[p].tasks[t].admin /\ ~procs[p].tasks[o].admin
            /\ procs[p].tasks[o].st # "new")
        => (procs[p].tasks[t].st = "done" /\ allSettled(procs[p].tasks[t].att))

\* C2 witness: the privileged subscriber's pre-check and broadcast are over and
\* another subscriber's attempt is in flight
C2_Witness ==
    \E p \in DOMAIN procs : \E t, o \in DOMAIN procs[p].tasks :
        /\ procs[p].tasks[t].admin
        /\ \E k \in DOMAIN procs[p].tasks[t].att : procs[p].tasks[t].att[k].send = 1
        /\ ~procs[p].tasks[o].admin
        /\ procs[p].tasks[o].st = "run"

\* C3: a transaction with value gets, per call, one result per key, each a
\* failure whose error begins with "Paid", and no estimateGas or sendTransaction.
C3_ValueGuard ==
    \A h \in Hashes : InLedger(h) /\ TxByHash(h).value > 0 =>
        /\ \A u \in 1..Len(users) :
              Len(outs[h][u]) = calls[h][u] * Len(getAllDecryptedKeys(u))
        /\ \A x \in Attempts : x[1] = h =>
              /\ x[3].res.success = FALSE
              /\ x[3].res.error # <<>> /\ x[3].res.error[1] = "Paid ("
              /\ x[3].est = 0 /\ x[3].send = 0

\* C3 witness: a paid mint was handed over for a subscriber with two keys
C3_Witness ==
    \E h \in Hashes, u \in 1..Len(users) :
        /\ InLedger(h) /\ TxByHash(h).value > 0
        /\ calls[h][u] = 1
        /\ Len(outs[h][u]) = 2

\* C4: a hash handed to attemptMintAllKeys has a tracked sender, calldata, a
\* target and the classifier's acceptance, and was not in processedTxs when it
\* was classified and first handed over; any other hash, a token transfer for
\* one, has no call and no message.
C4_Gate ==
    [][\A h \in Hashes : InLedger(h) =>
          LET tx == TxByHash(h) IN
          /\ calls'[h] # calls[h] =>
                /\ SenderTracked(tx)
                /\ tx.data.len > 0 /\ ~(tx.data.len = 2 /\ tx.data.sel = "0x")
                /\ tx.to # ""
                /\ isLikelyNFTMint(tx.data)
                /\ classified'[h] >= 1
                /\ (\A u \in 1..Len(users) : calls[h][u] = 0) =>
                      h \notin Range(processedTxs)
          /\ classified'[h] # classified[h] => h \notin Range(processedTxs)
          /\ (\/ ~SenderTracked(tx)
              \/ tx.data.len = 0 \/ (tx.data.len = 2 /\ tx.data.sel = "0x")
              \/ tx.to = ""
              \/ toLowerCase(tx.data.sel) = "0xa9059cbb"
              \/ ~isLikelyNFTMint(tx.data))
             => /\ \A u \in 1..Len(users) : calls'[h][u] = 0
                /\ \A x \in LiveAttempts' : x[1] # h
                /\ notes'[h] = 0]_vars

\* C4 witness: a block with a token transfer, an empty call and a contract
\* creation was walked through, and a later qualifying transaction handed over
C4_Witness ==
    /\ seen["h5"] >= 1 /\ seen["h2"] >= 1 /\ seen["h4"] >= 1
    /\ toLowerCase(TxByHash("h5").data.sel) = "0xa9059cbb"
    /\ calls["h5"][1] = 0
    /\ calls["h7"][1] = 1

\* C5: an attempt broadcasts only with a passed pre-check; one whose pre-check
\* failed has issued no broadcast and, once settled, reports success = false
\* and skippedPrecheck = true.
C5_PrecheckFirst ==
    \A x \in Attempts :
        /\ x[3].send > 0 => x[3].pre = "pass"
        /\ x[3].pre = "fail" => x[3].send = 0
        /\ (x[3].pre = "fail" /\ x[3].ph = "done") =>
              (x[3].res.success = FALSE /\ x[3].res.skippedPrecheck = TRUE)

\* C5 witness: one attempt was rejected by the pre-check, another was broadcast
C5_Witness ==
    /\ \E x \in ReturnedAttempts : x[3].pre = "fail" /\ x[3].res.skippedPrecheck
    /\ \E x \in ReturnedAttempts : x[3].pre = "pass" /\ x[3].send = 1

\* the subscribers processBlock schedules for a transaction: the first tracker
\* that matches ADMIN_ID and the trackers that do not match it, with a key each
Scheduled(tx) ==
    LET trackers == getWalletMap(toLowerCase(tx.from)) IN
    {u \in Range(adminTracker(trackers)) \cup Range(otherTrackers(trackers)) :
        getAllDecryptedKeys(u) # <<>>}

\* C6 as stated: once a free qualifying transaction is through, every tracker
\* of its sender that has a key got exactly one call and one result per key.
C6_EveryTrackerOnce ==
    \A h \in Hashes : (InLedger(h) /\ TxByHash(h).value = 0 /\ done[h] >= 1) =>
        \A u \in Range(getWalletMap(toLowerCase(TxByHash(h).from))) :
            getAllDecryptedKeys(u) # <<>> =>
                /\ calls[h][u] = 1
                /\ Len(outs[h][u]) = Len(getAllDecryptedKeys(u))

\* C7: whatever fails in an attempt, every scheduled subscriber of the
\* transaction is called and every one of its keys yields a settled result.
C7_Isolation ==
    \A h \in Hashes : (InLedger(h) /\ done[h] >= 1) =>
        \A u \in Scheduled(TxByHash(h)) :
            /\ calls[h][u] = 1
            /\ Len(outs[h][u]) = Len(getAllDecryptedKeys(u))
            /\ \A k \in DOMAIN outs[h][u] :
                  /\ outs[h][u][k].ph = "done"
                  /\ outs[h][u][k].address = getAllDecryptedKeys(u)[k].address

\* C7 witness: a signer that could not be built, a rejected pre-check and a
\* failed broadcast, next to a sibling key and other subscribers that minted
C7_Witness ==
    /\ Len(users) = 3
    /\ done["h1"] >= 1
    /\ Len(outs["h1"][3]) = 2
    /\ outs["h1"][3][1].res.error = <<"invalid private key">>
    /\ outs["h1"][3][2].res.success
    /\ \E k \in DOMAIN outs["h1"][2] : outs["h1"][2][k].pre = "fail"
    /\ \E k \in DOMAIN outs["h1"][1] :
          outs["h1"][1][k].res.error = <<"Transaction reverted">>

\* C8: an attempt whose key has the sender's address, letter case aside, is
\* settled without success, pre-check, broadcast or stats entry, and the other
\* usable keys of that subscriber are pre-checked.
C8_SelfCopy ==
    \A x \in Attempts : InLedger(x[1]) =>
        LET tx == TxByHash(x[1])
            a == x[3]
        IN (toLowerCase(a.address) = toLowerCase(tx.from)) =>
              /\ a.ph = "done" /\ a.res.success = FALSE
              /\ a.est = 0 /\ a.send = 0 /\ a.stats = 0
              /\ (tx.value = 0 /\ tx.to # "") => a.res.error = <<"Self-copy skipped">>
              /\ \A y \in Attempts :
                    (/\ y[1] = x[1] /\ y[2] = x[2] /\ tx.value = 0
                     /\ toLowerCase(y[3].address) # toLowerCase(tx.from)
                     /\ y[3].res.error # <<"invalid private key">>)
                    => y[3].est = 1

\* C8 witness: the sender's own key, stored in another letter case, was skipped
\* and the subscriber's second key broadcast
C8_Witness ==
    \E x, y \in ReturnedAttempts :
        /\ x[1] = y[1] /\ x[2] = y[2]
        /\ x[3].address # TxByHash(x[1]).from
        /\ toLowerCase(x[3].address) = toLowerCase(TxByHash(x[1]).from)
        /\ x[3].res.error = <<"Self-copy skipped">>
        /\ y[3].send = 1

\* the batch a task of the task list belongs to
BatchOf(pr, t) == (t - pr.nadm - 1) \div BATCH_SIZE

\* C9: at most BATCH_SIZE non-privileged tasks are in flight, tasks start in
\* list order, a task starts only when every task of the earlier batches has
\* settled, and every task runs exactly once.
C9_Batches ==
    \A p \in DOMAIN procs :
        LET pr == procs[p]
            others == {t \in DOMAIN pr.tasks : ~pr.tasks[t].admin}
        IN /\ Cardinality({t \in others : pr.tasks[t].st = "run"}) <= BATCH_SIZE
           /\ \A t, o \in others :
                 /\ (t < o /\ pr.tasks[o].st # "new") => pr.tasks[t].st # "new"
                 /\ (BatchOf(pr, t) < BatchOf(pr, o) /\ pr.tasks[o].st # "new")
                       => pr.tasks[t].st = "done"
           /\ \A t \in others :
                 calls[CurrentTx(pr).hash][pr.tasks[t].u]
                    = IF pr.tasks[t].st = "new" THEN 0 ELSE 1

\* C9 witness: the first batch is full and settled, the second one is running
C9_Witness ==
    \E p \in DOMAIN procs :
        /\ Len(procs[p].tasks) > BATCH_SIZE
        /\ procs[p].nadm = 0
        /\ \A t \in 1..BATCH_SIZE : procs[p].tasks[t].st = "done"
        /\ procs[p].tasks[BATCH_SIZE + 1].st = "run"

\* C10: an attempt issues estimateGas at most once and sendTransaction at most
\* once; a rejected pre-check ends it with one estimateGas and no broadcast, a
\* failed broadcast ends it with one of each.
C10_OneShot ==
    \A x \in Attempts :
        /\ x[3].est <= 1 /\ x[3].send <= 1 /\ x[3].stats <= 1
        /\ x[3].pre = "fail" =>
              (x[3].ph \in {"call", "done"} /\ x[3].est = 1 /\ x[3].send = 0)
        /\ x[3].res.error = <<"Transaction reverted">> =>
              (x[3].ph = "done" /\ x[3].est = 1 /\ x[3].send = 1)

\* C10 witness: one attempt ended at the pre-check, another at the broadcast
C10_Witness ==
    /\ \E x \in ReturnedAttempts : x[3].pre = "fail" /\ x[3].est = 1
    /\ \E x \in ReturnedAttempts :
          x[3].res.error = <<"Transaction reverted">> /\ x[3].send = 1

(***************************************************************************)
(* Cursor, poll window and RPC retry                                       *)
(***************************************************************************)
\* the call of rpcCallWithRetry a handler is in, if any
InRpc(pr) == pr.pc \in {"height", "fetch", "heightBackoff", "fetchBackoff"}

InBackoff(pr) == pr.pc \in {"heightBackoff", "fetchBackoff"}

\* the step in which the call of rpcCallWithRetry made by p is over
RpcOver(p) ==
    \/ procs'[p].pc # procs[p].pc /\ ~InBackoff(procs'[p])
    \/ procs'[p].blockNum > procs[p].blockNum /\ procs'[p].attempt = 0

\* the step in which the block fetch of processBlock throws
fetchAbandoned(p) ==
    /\ p \in DOMAIN procs
    /\ procs[p].pc = "fetch"
    /\ \E isRetryable \in BOOLEAN :
          ~retryRpc(isRetryable, procs[p].attempt) /\ rpcFailed(p, isRetryable)

\* C11: the cursor of a chain never decreases and the block numbers handed to
\* processBlock on a chain are strictly increasing.
C11_Cursor ==
    /\ [](\A c \in ChainNames :
            /\ \A i, j \in DOMAIN handed[c] : i < j => handed[c][i] < handed[c][j]
            /\ handed[c] # <<>> => handed[c][Len(handed[c])] = lastCheckedBlock[c])
    /\ [][\A c \in ChainNames : lastCheckedBlock'[c] >= lastCheckedBlock[c]]_vars

\* C11 witness: a push handler and a poll tick are alive at once on a chain
\* whose cursor has moved three times
C11_Witness ==
    /\ Len(handed["ETH"]) >= 3
    /\ \E p, q \in DOMAIN procs :
          /\ procs[p].kind = "ws" /\ procs[q].kind = "poll"
          /\ procs[p].chain = "ETH" /\ procs[q].chain = "ETH"
          /\ procs[q].did # <<>>

\* C12 as stated: when the block fetch of processBlock throws, the cursor of
\* the chain stays below that block number.
C12_CursorKept ==
    [][\A p \in ProcIds :
          fetchAbandoned(p) => lastCheckedBlock'[procs[p].chain] < procs[p].blockNum]_vars

\* the block numbers a poll cycle still has to look at that are above the cursor
Ahead(pr) ==
    {b \in (pr.blockNum + 1)..pr.currentBlock : b > lastCheckedBlock[pr.chain]}

Least(S) == CHOOSE b \in S : \A x \in S : b <= x

\* C15: a poll cycle that sees head H over cursor L hands to processBlock, one
\* at a time and ascending, the numbers of [max(L+1, H-2), H] that are above the
\* cursor when reached: H alone when the cursor is unset, nothing when H <= L.
C15_PollWindow ==
    /\ [](\A p \in DOMAIN procs :
            LET pr == procs[p] IN
            (pr.kind = "poll" /\ pr.currentBlock > 0) =>
               /\ Len(pr.did) <= 3
               /\ pr.startBlock >= pr.currentBlock - 2
               /\ \A i \in DOMAIN pr.did :
                     pr.startBlock <= pr.did[i] /\ pr.did[i] <= pr.currentBlock
               /\ \A i, j \in DOMAIN pr.did : i < j => pr.did[i] < pr.did[j])
    /\ [][\A p \in DOMAIN procs :
            LET pr == procs[p]
                nx == procs'[p]
                c == pr.chain
                L == lastCheckedBlock[c]
                H == head[c]
            IN /\ heightResolved(p) =>
                    IF L = 0
                    THEN nx.did = <<H>> /\ lastCheckedBlock'[c] = H
                    ELSE IF H <= L
                    THEN /\ nx.kind = "idle"
                         /\ lastCheckedBlock' = lastCheckedBlock /\ handed' = handed
                    ELSE /\ nx.did = <<IF L + 1 > H - 2 THEN L + 1 ELSE H - 2>>
                         /\ lastCheckedBlock'[c] = nx.did[1]
               /\ (pr.kind = "poll" /\ pr.currentBlock > 0) =>
                    /\ nx.did # pr.did /\ nx.kind = "poll" =>
                          /\ Ahead(pr) # {}
                          /\ nx.did = Append(pr.did, Least(Ahead(pr)))
                          /\ lastCheckedBlock'[c] = Least(Ahead(pr))
                    /\ nx.kind = "idle" => Ahead(pr) = {}]_vars

\* C15 witness: a cycle skipped the blocks under the look-back window, and a
\* cycle skipped a block the push path took while it was waiting
C15_Witness ==
    \E p \in DOMAIN procs :
        /\ procs[p].kind = "poll"
        /\ procs[p].startBlock > 2
        /\ handed["ETH"] # <<>> /\ handed["ETH"][1] = 1
        /\ Len(procs[p].did) = 2
        /\ procs[p].did[2] > procs[p].did[1] + 1

\* C17: a call of rpcCallWithRetry makes at most maxRetries attempts, attempt i
\* on endpoint i mod n; a further attempt follows a retryable error only, and a
\* result or the last error ends the call.
C17_BoundedRetry ==
    /\ [](\A p \in DOMAIN procs :
            InRpc(procs[p]) =>
               /\ procs[p].attempt \in 0..2
               /\ procs[p].rpcUrl = procs[p].attempt % chains[procs[p].chain].rpcUrls
               /\ InBackoff(procs[p]) => procs[p].attempt < 2)
    /\ [][\A p \in DOMAIN procs :
            /\ (InRpc(procs[p]) /\ procs'[p].attempt > procs[p].attempt) =>
                  (InBackoff(procs[p]) /\ procs'[p].attempt = procs[p].attempt + 1)
            /\ (InBackoff(procs'[p]) /\ ~InBackoff(procs[p])) =>
                  (rpcFailed(p, TRUE) /\ ~rpcFailed(p, FALSE))
            /\ (heightResolved(p) \/ \E found \in BOOLEAN : blockFetched(p, found)) =>
                  RpcOver(p)
            /\ (procs[p].attempt = 2 /\ \E r \in BOOLEAN : rpcFailed(p, r)) =>
                  RpcOver(p)]_vars

\* C17 witness: the third attempt is out on the first endpoint again, and a
\* poll cycle went on after a call that had used up its attempts
C17_Witness ==
    \E p, q \in DOMAIN procs :
        /\ procs[p].pc = "fetch" /\ procs[p].attempt = 2 /\ procs[p].rpcUrl = 0
        /\ chains[procs[p].chain].rpcUrls = 2
        /\ procs[q].threw = "exhausted"

\* C18: an error that is not retryable ends the call at once: no backoff and
\* no further attempt.
C18_FatalAtOnce ==
    [][\A p \in DOMAIN procs :
          (procs[p].pc \in {"height", "fetch"} /\ rpcFailed(p, FALSE)) =>
              /\ ~InBackoff(procs'[p])
              /\ RpcOver(p)]_vars

\* C18 witness: the first attempt of a block fetch failed for good and the poll
\* cycle is at its next block
C18_Witness ==
    \E p \in DOMAIN procs :
        /\ procs[p].threw = "fatal"
        /\ procs[p].pc = "fetch"
        /\ procs[p].attempt = 0

(***************************************************************************)
(* Subscriptions, start-up and the processed set                           *)
(***************************************************************************)
\* C13 as stated: after a push failure of any kind a reconnect is pending, and
\* the poll timer of the chain stays installed.
C13_Resubscribes ==
    \A c \in ChainNames :
        /\ wsDown[c] # "none" => wsDown[c] = "close"
        /\ (wsDown[c] # "none" \/ c \in wsOpen) => c \in timers

\* C14 as stated: a lookup in the processed set finds a hash only if the
\* watcher of the same chain recorded it.
C14_OwnSet ==
    [][\A p \in DOMAIN procs : \A h \in Hashes :
          (procs'[p] # procs[p] /\ seen'[h] > seen[h] /\ h \in Range(processedTxs))
          => owner[h] = procs[p].chain]_vars

\* a subscription was attempted for the chain
Subscription(c) == c \in wsOpen \/ wsDown[c] # "none"

\* C19: startMonitoring installs the poll timer of exactly the chains with an
\* endpoint and subscribes exactly those of them that have a wsUrl.
C19_Startup ==
    /\ timers \in {{}, {c \in ChainNames : chains[c].rpcUrls > 0}}
    /\ timers = {} => \A c \in ChainNames : ~Subscription(c)
    /\ timers # {} =>
          \A c \in ChainNames : Subscription(c) <=> (chains[c].rpcUrls > 0 /\ chains[c].wsUrl)

\* C19 witness: one chain is pushed and polled, one polled only, one with a
\* wsUrl but no endpoint is left alone
C19_Witness ==
    /\ timers = {"ETH", "BASE"}
    /\ wsOpen = {"ETH"}
    /\ chains["POLY"].wsUrl /\ chains["POLY"].rpcUrls = 0
    /\ ~chains["BASE"].wsUrl

\* C16: hashes leave processedTxs only when a cleanup finds more than 5500,
\* and then the 5000 most recently inserted remain; no handler returns from a
\* cleanup with more than 5500 left.
C16_Cleanup ==
    /\ []((\A p \in DOMAIN procs : procs[p].kind = "idle") => Len(processedTxs) <= 5500)
    /\ [][LET old == processedTxs
              new == processedTxs'
          IN \/ Len(new) >= Len(old) /\ SubSeq(new, 1, Len(old)) = old
             \/ \E k \in 0..Cardinality(Hashes) :
                   /\ Len(old) + k > 5500
                   /\ Len(new) = 5000
                   /\ SubSeq(new, 1, 5000 - k) = SubSeq(old, Len(old) + k - 4999, Len(old))
                   /\ \A i \in (5001 - k)..5000 : new[i] \notin Range(old)]_vars

\* C16 witness: a cleanup at 5500 hashes has left the set alone and a cleanup
\* at 5502 has dropped the 502 oldest
C16_Witness ==
    /\ Len(processedTxs) = 5000
    /\ processedTxs[1] = "old503"
    /\ processedTxs[4998] = "h1"
    /\ processedTxs[5000] = "h3"
    /\ handed["ETH"] = <<1, 2>>

(***************************************************************************)
(* Classifier                                                              *)
(***************************************************************************)
\* calldata the classifier is tried on: selectors of both lists, in both
\* letter cases, and unknown ones, at lengths around the two thresholds
CalldataInputs ==
    [sel : TOKEN_FUNCTION_BLACKLIST \cup MINT_FUNCTION_WHITELIST
              \cup {"0xA9059CBB", "0x40C10F19", "0xdeadbeef"},
     len : {10, 138, 199, 200, 201, 599, 600, 601, 4000}]

\* the inputs whose selector, lower-cased, is on the deny list
DenyListed ==
    {d \in CalldataInputs : toLowerCase(d.sel) \in TOKEN_FUNCTION_BLACKLIST}

\* the inputs rejected both with the lists as they are and with every
\* deny-listed selector put on the allow list as well
Rejected ==
    {d \in CalldataInputs :
        /\ ~isLikelyNFTMint(d)
        /\ ~classify(TOKEN_FUNCTION_BLACKLIST,
                     MINT_FUNCTION_WHITELIST \cup TOKEN_FUNCTION_BLACKLIST, d)}

\* C20: calldata whose selector, lower-cased, is on the deny list is rejected
\* at every length, also when the allow list holds the same selector; such a
\* transaction is never handed over.
C20_DenyFirst ==
    /\ DenyListed \subseteq Rejected
    /\ \A h \in Hashes :
          (\E u \in 1..Len(users) : calls[h][u] # 0)
          => toLowerCase(TxByHash(h).data.sel) \notin TOKEN_FUNCTION_BLACKLIST

\* C20 witness: a transfer whose selector is written in upper case was
\* classified and dropped
C20_Witness ==
    /\ InLedger("h5")
    /\ TxByHash("h5").data.sel \notin TOKEN_FUNCTION_BLACKLIST
    /\ toLowerCase(TxByHash("h5").data.sel) \in TOKEN_FUNCTION_BLACKLIST
    /\ classified["h5"] = 1
    /\ "h5" \in Range(processedTxs)
    /\ calls["h5"][1] = 0

\* the inputs whose selector, lower-cased, is on neither list
Unlisted ==
    {d \in CalldataInputs :
        toLowerCase(d.sel) \notin TOKEN_FUNCTION_BLACKLIST \cup MINT_FUNCTION_WHITELIST}

\* the descriptions of getFilterReason that name a rejection
RejectionReasons ==
    {"No calldata", "Token operation (transfer/approve/swap)",
     "Complex interaction (likely swap/DeFi)"}

\* C21: calldata with a selector on neither list is accepted up to 600
\* characters (10, 199, 200 and 600 among them) and rejected from 601 on;
\* getFilterReason names a rejection exactly when isLikelyNFTMint is false; a
\* transaction with an unlisted selector is handed over only up to 600.
C21_Lengths ==
    /\ \A d \in Unlisted : isLikelyNFTMint(d) <=> d.len <= 600
    /\ \A len \in {10, 199, 200, 600} : isLikelyNFTMint([sel |-> "0xdeadbeef", len |-> len])
    /\ ~isLikelyNFTMint([sel |-> "0xdeadbeef", len |-> 601])
    /\ \A d \in CalldataInputs \cup {[sel |-> "", len |-> 0], [sel |-> "0x", len |-> 2]} :
          getFilterReason(d) \in RejectionReasons <=> ~isLikelyNFTMint(d)
    /\ \A h \in Hashes :
          (\E u \in 1..Len(users) : calls[h][u] # 0)
          => LET d == TxByHash(h).data
             IN toLowerCase(d.sel) \in MINT_FUNCTION_WHITELIST \/ d.len <= 600

\* C21 witness: of two transactions with the same unlisted selector the one of
\* 601 characters was classified and dropped, the one of 600 handed over
C21_Witness ==
    /\ InLedger("h6") /\ InLedger("h7")
    /\ TxByHash("h6").data = [sel |-> "0xdeadbeef", len |-> 601]
    /\ TxByHash("h7").data = [sel |-> "0xdeadbeef", len |-> 600]
    /\ classified["h6"] = 1 /\ calls["h6"][1] = 0
    /\ classified["h7"] = 1 /\ calls["h7"][1] = 1

(***************************************************************************)
(* Calldata rewriting                                                      *)
(***************************************************************************)
\* the job is past the call that rewrites its calldata
Rewrote(kinds) == job.kind \in kinds /\ job.pc # "new"

\* the text is n whole words of hexadecimal digits
Words(t, n) == Len(t) = 64 * n /\ \A i \in 1..Len(t) : t[i] \in HexChars

\* the word holds an address: its first twelve bytes are zero
AddressWord(w) == SubSeq(w, 1, 24) = Rep(24, "0")

\* C22: for well-formed mint(address,uint256) calldata the result keeps the
\* selector, its first word decodes to the replacement address and its second
\* word holds the bytes of the original's second word.
C22_MintRoundTrip ==
    (/\ Rewrote({"replaceRecipient", "attempt"})
     /\ job.data.sel = "0x40c10f19"
     /\ Words(job.data.params, 2)
     /\ AddressWord(job.data.params))
    => /\ job.out.sel = "0x40c10f19"
       /\ Words(job.out.params, 2)
       /\ AddressWord(job.out.params)
       /\ getAddress(SubSeq(job.out.params, 25, 64)) = getAddress(job.signer)
       /\ job.signer = getAddress(job.signer)
             => getAddress(SubSeq(job.out.params, 25, 64)) = job.signer
       /\ lowerChars(SubSeq(job.out.params, 65, 128))
             = lowerChars(SubSeq(job.data.params, 65, 128))

\* C22 witness: a token id written with a capital digit was carried over, in
\* small letters, behind the new recipient
C22_Witness ==
    /\ job.kind = "replaceRecipient" /\ job.pc = "done"
    /\ job.data = Calldata("0x40c10f19", Word(SENDER) \o Uint(<<"A", "b">>))
    /\ job.signer = SIGNER
    /\ job.out.params = Word(lowerChars(SIGNER)) \o Uint(<<"a", "b">>)

\* C23: for the selectors 0x4b61cd6f, 0x2e69ed7f and 0x6ab93230 with at least
\* three words of parameters, the result has the selector, the first two words
\* and everything after the third word as they were written, the third word is
\* the zero-padded replacement address in small letters, and the length is kept.
C23_ThirdWordOnly ==
    (/\ Rewrote({"replaceRecipient", "attempt"})
     /\ job.data.sel \in {"0x4b61cd6f", "0x2e69ed7f", "0x6ab93230"}
     /\ Len(job.data.params) >= 192)
    => /\ job.out.sel = job.data.sel
       /\ Len(job.out.params) = Len(job.data.params)
       /\ SubSeq(job.out.params, 1, 128) = SubSeq(job.data.params, 1, 128)
       /\ SubSeq(job.out.params, 129, 192) = Rep(24, "0") \o lowerChars(job.signer)
       /\ SubSeq(job.out.params, 193, Len(job.out.params))
             = SubSeq(job.data.params, 193, Len(job.data.params))

\* C23 witness: the sender's address in the first word and after the third
\* word, and the capitals of the trailing bytes, were left as written
C23_Witness ==
    /\ job.kind = "replaceRecipient" /\ job.pc = "done"
    /\ job.data.sel = "0x6ab93230" /\ job.from = SENDER /\ job.signer = SIGNER
    /\ job.out.params = Word(SENDER) \o Word(FEE) \o Word(lowerChars(SIGNER))
                           \o Word(SENDER) \o Rep(10, "F")
    /\ job.out.params # job.data.params

\* the word of the parameters that holds the recipient, counted from 1
RecipientWord(sel) == IF sel = "0x26bf076a" THEN 3 ELSE 1

\* the bytes of a hexadecimal text outside its n-th word
Outside(t, n) ==
    lowerChars(SubSeq(t, 1, 64 * (n - 1))) \o lowerChars(SubSeq(t, 64 * n + 1, Len(t)))

\* C24 as stated: for the selectors 0x40c10f19, 0x6a627842 and 0x26bf076a the
\* result has the length of the original and, outside the recipient's word,
\* its bytes, those after the fixed parameters included.
C24_OnlyRecipient ==
    (/\ Rewrote({"replaceRecipient", "attempt"})
     /\ job.data.sel \in {"0x40c10f19", "0x6a627842", "0x26bf076a"})
    => /\ job.out.sel = job.data.sel
       /\ Len(job.out.params) = Len(job.data.params)
       /\ Outside(job.out.params, RecipientWord(job.data.sel))
             = Outside(job.data.params, RecipientWord(job.data.sel))

\* the parameters are no byte string of at least n words
Malformed(t, n) ==
    \/ \E i \in 1..Len(t) : t[i] \notin HexChars
    \/ Len(t) % 2 = 1
    \/ Len(t) < 64 * n

\* the parameters of a known selector that cannot be decoded
Undecodable(d) ==
    CASE d.sel = "0x40c10f19" -> Malformed(d.params, 2) \/ ~AddressWord(d.params)
      [] d.sel = "0x6a627842" -> Malformed(d.params, 1) \/ ~AddressWord(d.params)
      [] d.sel = "0x26bf076a" ->
            \/ Malformed(d.params, 4)
            \/ \E n \in 0..2 : ~AddressWord(SubSeq(d.params, 64 * n + 1, 64 * n + 64))
      [] d.sel \in {"0x4b61cd6f", "0x2e69ed7f", "0x6ab93230"} -> Len(d.params) < 192
      [] OTHER -> FALSE

\* C25 as stated: when the parameters of a known selector cannot be decoded,
\* replaceRecipientInCalldata returns the calldata it was given, and the attempt
\* passes that calldata to the pre-check and to the broadcast.
C25_FallsBack ==
    (Rewrote({"replaceRecipient", "attempt"}) /\ Undecodable(job.data))
    => /\ job.out = job.data
       /\ job.kind = "attempt" => job.estimated = job.data
       /\ job.broadcast # NoData => job.broadcast = job.data

\* C26: genericReplaceAddress called with two addresses whose lower-cased,
\* zero-padded encodings are the same returns the calldata it was given and
\* counts no replacement.
C26_IdenticalEncodings ==
    (/\ Rewrote({"genericReplace"})
     /\ lowerChars(padStart(job.from, 64, "0")) = lowerChars(padStart(job.signer, 64, "0")))
    => /\ job.out = job.data
       /\ job.replacements = 0

\* the two addresses differ in case only and the calldata holds the address
C26_Witness ==
    /\ Rewrote({"genericReplace"})
    /\ job.from # job.signer
    /\ lowerChars(job.from) = lowerChars(job.signer)
    /\ includes(lowerChars(job.data.params), lowerChars(Word(job.from)))
    /\ job.replacements = 0

\* the text holds the zero-padded 32-byte encoding of the address, in any case
Holds(t, address) ==
    \E i \in 1..Len(t) :
        /\ i + 63 <= Len(t)
        /\ lowerChars(SubSeq(t, i, i + 63)) = Rep(24, "0") \o lowerChars(address)

\* C27: for a selector that is not a known one, genericReplaceAddress with a
\* different new address keeps the selector and the length, leaves no
\* encoding of the sender in the parameters, and counts at least one
\* replacement exactly when the parameters held one; an attempt on such
\* calldata estimates the calldata without the sender's encoding.
C27_EveryOccurrence ==
    (/\ Rewrote({"genericReplace", "attempt"})
     /\ job.data.sel \notin {"0x40c10f19", "0x6a627842", "0x4b61cd6f", "0x26bf076a",
                             "0x2e69ed7f", "0x6ab93230"}
     /\ lowerChars(job.from) # lowerChars(job.signer))
    => /\ job.out.sel = job.data.sel
       /\ Len(job.out.params) = Len(job.data.params)
       /\ ~Holds(job.out.params, job.from)
       /\ job.kind = "genericReplace"
             => (job.replacements >= 1 <=> Holds(job.data.params, job.from))
       /\ job.kind = "attempt" => job.estimated = job.out
       /\ ~Holds(job.data.params, job.from) => job.out = job.data

\* the parameters held the sender twice, once in each case
C27_Witness ==
    /\ Rewrote({"genericReplace", "attempt"})
    /\ job.data.sel = "0xdeadbeef"
    /\ Len(job.data.params) = 192
    /\ Holds(SubSeq(job.data.params, 65, 128), job.from)
    /\ Holds(SubSeq(job.data.params, 129, 192), job.from)
    /\ SubSeq(job.data.params, 65, 128) # SubSeq(job.data.params, 129, 192)
    /\ job.out.params = SubSeq(job.data.params, 1, 64)
                            \o lowerChars(Word(job.signer)) \o lowerChars(Word(job.signer))

(***************************************************************************)
(* Notifications and confirmation waits                                    *)
(***************************************************************************)
\* the messages of one kind among those sent for a hash to a subscriber
Messages(h, u, kinds) == {i \in DOMAIN sent[h][u] : sent[h][u][i].kind \in kinds}

\* the attempts for a hash and a subscriber that have not settled yet
Unsettled(h, u) == {x \in LiveAttempts : x[1] = h /\ x[2] = u /\ x[3].ph # "done"}

\* C28: for a zero-value transaction and a subscriber it is replayed for, no
\* results summary is sent while an attempt of the subscriber is unsettled, one
\* summary is sent in the step that settles the last of them, whatever the
\* number of keys, and one has been sent once the transaction is through.
C28_OneSummary ==
    \A h \in Hashes : \A u \in DOMAIN users :
        (InLedger(h) /\ TxByHash(h).value = 0 /\ calls[h][u] >= 1) =>
            LET n == Cardinality(Messages(h, u, {"results"})) IN
            /\ n <= 1
            /\ Unsettled(h, u) # {} => n = 0
            /\ n = 1 <=> Len(outs[h][u]) = Len(getAllDecryptedKeys(u))
            /\ n = 0 <=> outs[h][u] = <<>>
            /\ done[h] >= 1 => n = 1

\* a subscriber with two keys whose attempts ended differently got one summary
C28_Witness ==
    \E h \in Hashes : \E u \in DOMAIN users :
        /\ InLedger(h) /\ TxByHash(h).value = 0
        /\ Len(outs[h][u]) = 2
        /\ outs[h][u][1].res.success /\ ~outs[h][u][2].res.success
        /\ outs[h][u][2].send = 1
        /\ Cardinality(Messages(h, u, {"results"})) = 1
        /\ Cardinality(Messages(h, u, {"detected"})) = 1

\* a send was rejected in this step
Rejection ==
    \E h \in Hashes : \E u \in DOMAIN users : \E i \in DOMAIN sent[h][u] :
        sent[h][u][i].st = "sent" /\ sent'[h][u][i].st = "failed"

\* C29: a rejected send of any kind of message leaves the handler invocations
\* with their pending attempts, the results returned so far, the confirmation
\* waits, the processed set and the cursors as they were; a transaction with
\* rejected sends still ends with every result of every subscriber it was
\* replayed for.
C29_SendFailureCaught ==
    /\ [][Rejection =>
             /\ procs' = procs /\ outs' = outs /\ calls' = calls /\ waits' = waits
             /\ processedTxs' = processedTxs /\ lastCheckedBlock' = lastCheckedBlock
             /\ done' = done]_vars
    /\ [](\A h \in Hashes : \A u \in DOMAIN users :
             (done[h] >= 1 /\ calls[h][u] >= 1
              /\ \E i \in DOMAIN sent[h][u] : sent[h][u][i].st = "failed")
             => /\ Len(outs[h][u]) = Len(getAllDecryptedKeys(u))
                /\ Unsettled(h, u) = {})

\* the skip message of the paid transaction and the first message of the free
\* one were rejected while one key had broadcast and the other was in flight
C29_Witness ==
    \E h \in Hashes : \E g \in Hashes : \E u \in DOMAIN users :
        /\ Messages(g, u, {"skipped"}) # {}
        /\ \A i \in Messages(g, u, {"skipped"}) : sent[g][u][i].st = "failed"
        /\ Messages(h, u, {"detected"}) # {}
        /\ \A i \in Messages(h, u, {"detected"}) : sent[h][u][i].st = "failed"
        /\ Unsettled(h, u) # {}
        /\ \E x \in LiveAttempts : x[1] = h /\ x[2] = u /\ x[3].res.success

\* the confirmation wait of a key was settled before this step
WaitOver(h, u, k) == waits[h][u][k] \in {"confirmed", "reverted", "error"}

\* C30: the results of a call are returned with every confirmation wait still
\* pending; a wait is started for each successful broadcast and for no other
\* attempt; a settled wait has sent the one message of its outcome, a failed
\* wait none, and neither is settled again; the step that settles a wait
\* changes no handler invocation, result, processed set or cursor.
C30_Confirmations ==
    /\ [](\A h \in Hashes : \A u \in DOMAIN users :
             /\ Len(waits[h][u]) = Len(outs[h][u])
             /\ \A k \in DOMAIN waits[h][u] :
                   /\ waits[h][u][k] # "none" <=> outs[h][u][k].res.success
                   /\ Cardinality({i \in Messages(h, u, {"confirmed", "reverted"}) :
                                      sent[h][u][i].key = k})
                         = (IF waits[h][u][k] \in {"confirmed", "reverted"} THEN 1 ELSE 0)
                   /\ \A i \in Messages(h, u, {"confirmed", "reverted"}) :
                         sent[h][u][i].key = k => sent[h][u][i].kind = waits[h][u][k])
    /\ [][\A h \in Hashes : \A u \in DOMAIN users :
             /\ outs'[h][u] # outs[h][u] =>
                   \A k \in DOMAIN waits'[h][u] : waits'[h][u][k] \in {"none", "wait"}
             /\ \A k \in DOMAIN waits[h][u] :
                   /\ WaitOver(h, u, k) => waits'[h][u][k] = waits[h][u][k]
                   /\ waits'[h][u][k] # waits[h][u][k] =>
                         /\ procs' = procs /\ outs' = outs /\ calls' = calls
                         /\ processedTxs' = processedTxs /\ done' = done
                         /\ lastCheckedBlock' = lastCheckedBlock]_vars

\* the transaction is through; the receipt of one broadcast showed a revert,
\* the wait for the other is still pending
C30_Witness ==
    \E h \in Hashes : \E u \in DOMAIN users :
        /\ done[h] >= 1
        /\ waits[h][u] = <<"wait", "reverted">>
        /\ \E i \in DOMAIN sent[h][u] : sent[h][u][i] = Message("reverted", 2)
        /\ \A p \in DOMAIN procs : procs[p].kind = "idle"

(***************************************************************************)
(* The processed set, the order of replays and the cursor                  *)
(***************************************************************************)
\* C33: a step in which processBlock looks a hash of a tracked sender up in
\* processedTxs ends with the hash in processedTxs, whether the transaction
\* had no calldata, no target, was rejected by the classifier or was accepted.
C33_Recorded ==
    [][\A h \in Hashes : seen'[h] > seen[h] => h \in Range(processedTxs')]_vars

\* a block with an empty call, a contract creation and a rejected transfer
\* was walked through, and the accepted transaction after it handed over
C33_Witness ==
    /\ {"h2", "h3", "h4", "h5", "h6", "h7"} \subseteq Range(processedTxs)
    /\ InLedger("h4") /\ TxByHash("h4").to = ""
    /\ InLedger("h2") /\ TxByHash("h2").data.len = 0
    /\ classified["h5"] = 1 /\ ~isLikelyNFTMint(TxByHash("h5").data)
    /\ classified["h7"] = 1 /\ calls["h7"][1] = 1
    /\ classified["h2"] = 0 /\ classified["h4"] = 0

\* the blocks of a chain that hold the hash
BlocksWith(c, h) ==
    {b \in DOMAIN ledger[c] : \E i \in DOMAIN ledger[c][b] : ledger[c][b][i].hash = h}

\* the hash is in this block of this chain only, and one processBlock call
\* was made for the block
OneCall(c, b, h) ==
    /\ \A d \in ChainNames : BlocksWith(d, h) = (IF d = c THEN {b} ELSE {})
    /\ Cardinality({n \in DOMAIN handed[c] : handed[c][n] = b}) = 1

\* attemptMintAllKeys was called for the hash
Replayed(h) == \E u \in DOMAIN users : calls[h][u] >= 1

\* C35: when a replay of a transaction has started, every transaction before
\* it in the block that the same processBlock call replayed has all its
\* results, of the privileged subscriber and of every batch, and an earlier
\* transaction is never replayed after a later one.
C35_OneAtATime ==
    \A c \in ChainNames : \A b \in DOMAIN ledger[c] :
        \A i \in DOMAIN ledger[c][b] : \A j \in DOMAIN ledger[c][b] :
            LET g == ledger[c][b][i].hash
                h == ledger[c][b][j].hash
            IN (i < j /\ OneCall(c, b, g) /\ OneCall(c, b, h) /\ Replayed(h)) =>
                  /\ Scheduled(ledger[c][b][i]) # {} /\ isLikelyNFTMint(ledger[c][b][i].data)
                        => Replayed(g)
                  /\ Replayed(g) =>
                        /\ done[g] >= 1
                        /\ \A u \in Scheduled(ledger[c][b][i]) :
                              /\ calls[g][u] = 1
                              /\ Unsettled(g, u) = {}
                              /\ Len(outs[g][u]) = Len(getAllDecryptedKeys(u))

\* the second mint of the block is being replayed for the privileged
\* subscriber, after the first was replayed for both subscribers
C35_Witness ==
    /\ Len(users) = 2
    /\ calls["h1"] = <<1, 1>> /\ done["h1"] = 1
    /\ calls["h2"] = <<0, 1>> /\ done["h2"] = 0
    /\ Unsettled("h2", 2) # {}
    /\ \E k \in DOMAIN outs["h1"][1] : outs["h1"][1][k].res.success

\* the block numbers handed to processBlock on a chain are consecutive
Contiguous(c) ==
    \A i \in DOMAIN handed[c] : i > 1 => handed[c][i] = handed[c][i - 1] + 1

\* a poll cycle observes a head more than 3 blocks ahead of the cursor
PollFarBehind(c) ==
    \E p \in DOMAIN procs :
        /\ heightResolved(p) /\ procs[p].chain = c
        /\ lastCheckedBlock[c] # 0 /\ head[c] > lastCheckedBlock[c] + 3

\* a push delivers a block number more than one above the cursor
PushAhead(c) ==
    \E p \in DOMAIN procs : \E n \in 1..head[c] :
        /\ wsBlock(c, n, p)
        /\ lastCheckedBlock[c] # 0 /\ n > lastCheckedBlock[c] + 1

\* C36 as stated: unless a poll cycle observes a head more than 3 blocks ahead
\* of the cursor, no step of a handler leaves a gap in the block numbers
\* handed to processBlock, whatever the push path delivers.
C36_NeverSkips ==
    [][\A c \in ChainNames :
          (Contiguous(c) /\ ~PollFarBehind(c)) => Contiguous(c)']_vars

\* C36 amended: unless a poll cycle observes a head more than 3 blocks ahead of
\* the cursor or a push delivers a number more than one above the cursor, no
\* step leaves a gap: every number from the first block handed to processBlock
\* up to the cursor has been handed.
C36_SkipsByPushOnly ==
    /\ [][\A c \in ChainNames :
             (Contiguous(c) /\ ~PollFarBehind(c) /\ ~PushAhead(c)) => Contiguous(c)']_vars
    /\ [](\A c \in ChainNames :
             (Contiguous(c) /\ handed[c] # <<>>) =>
                 \A b \in handed[c][1]..lastCheckedBlock[c] :
                     \E i \in DOMAIN handed[c] : handed[c][i] = b)

\* a push handler and a poll cycle are alive on a chain whose blocks were
\* handed over without a gap, part by the one and part by the other
C36_Witness ==
    \E p \in DOMAIN procs : \E q \in DOMAIN procs :
        /\ procs[p].kind = "ws" /\ procs[q].kind = "poll"
        /\ procs[p].chain = "ETH" /\ procs[q].chain = "ETH"
        /\ procs[p].did # <<>> /\ procs[q].did # <<>>
        /\ Len(handed["ETH"]) >= 3
        /\ Contiguous("ETH")

(***************************************************************************)
(* Classifier and transformer together                                     *)
(***************************************************************************)
\* calldata with each selector the transformer knows, at lengths around the
\* thresholds of the classifier
KnownLayouts ==
    [sel : addressMintFunctions, len : {10, 138, 199, 200, 266, 600, 601, 4000}]

\* C37 as stated: calldata whose selector makes needsAddressReplacement true
\* is accepted by isLikelyNFTMint at every length.
C37_KnownAccepted ==
    \A d \in KnownLayouts \cup {tx.data : tx \in LedgerTxs} :
        needsAddressReplacement([sel |-> d.sel, params |-> <<>>]) => isLikelyNFTMint(d)

(***************************************************************************)
(* The loop of genericReplaceAddress                                       *)
(***************************************************************************)
\* C38: genericReplaceAddress with two addresses of different encodings
\* returns, whatever the selector, with the length kept, no encoding of the
\* old address left in the parameters and a count no larger than the number
\* of positions, also when a replacement completes a new occurrence.
C38_Terminates ==
    (Rewrote({"genericReplace"})
     /\ lowerChars(Word(job.from)) # lowerChars(Word(job.signer)))
    => /\ job.pc = "done"
       /\ Len(job.out.params) = Len(job.data.params)
       /\ \A i \in 0..Len(job.out.params) :
             substring(lowerChars(job.out.params), i, i + 64) # lowerChars(Word(job.from))
       /\ job.replacements <= Len(job.data.params)

\* the parameters held the old encoding once, at position 39; the new
\* encoding written there completed another at position 0, replaced as well
C38_Witness ==
    /\ Rewrote({"genericReplace"})
    /\ job.data.params = Rep(39, "0") \o Word(LOW)
    /\ job.from = LOW /\ job.signer = HIGH
    /\ job.replacements = 2
    /\ job.out.params = Word(HIGH) \o SubSeq(Word(HIGH), 26, 64)

(***************************************************************************)
(* The registry and the wallet map cache.                                   *)
(***************************************************************************)
\* C31: after any sequence of registry mutations the next getWalletMap call
\* returns the index freshly computed from the store: every lower-cased
\* tracked address with exactly the subscribers that track it now, with
\* their current chatId and username.
C31_FreshIndex == walletMapOf(registry) = buildWalletMap(registry)

Addresses(userId) ==
    [i \in DOMAIN registry.users[userId].walletKeys |->
        toLowerCase(registry.users[userId].walletKeys[i].address)]

\* C32: after any sequence of addUser, addWalletKey, removeWalletKey and
\* changeWalletKey calls, the derived addresses of a subscriber's signing
\* keys are pairwise distinct, letter case ignored.
C32_DistinctAddresses ==
    \A u \in StoreIds : \A i, j \in DOMAIN Addresses(u) :
        i # j => Addresses(u)[i] # Addresses(u)[j]

\* C34: after any sequence of addUser, addWalletKey, removeWalletKey and
\* changeWalletKey calls, every existing subscriber has at least one and at
\* most MAX_KEYS signing keys.
C34_KeyCount ==
    \A u \in StoreIds :
        userExists(u) => Len(registry.users[u].walletKeys) \in 1..MAX_KEYS

\* removeWalletKey has refused to take the only key of a subscriber
C34_Witness ==
    /\ registry.threw = "Cannot remove your last key"
    /\ Len(registry.users["7"].walletKeys) = 1

\* C39: a store mutation that fails throws and leaves every subscriber's
\* keys and tracked wallets and the store's dataVersion as they were.
C39_FailedLeavesUnchanged ==
    [][registry'.threw # "" =>
          /\ registry'.users = registry.users
          /\ registry'.dataVersion = registry.dataVersion]_vars

\* addTrackedWallet has thrown at the wallet limit
C39_Witness ==
    /\ registry.threw = "Maximum 20 wallets allowed"
    /\ Len(registry.users["7"].trackedWallets) = MAX_WALLETS
    /\ registry.dataVersion > 0

====
